---- MODULE Spec2Model ----
(***************************************************************************)
(* Time-slot scoring and analysis engine of the email send-time optimizer  *)
(* (src/email-send-time-optimizer/src/utils/analysisEngine.ts).            *)
(*                                                                         *)
(* Numbers.  The engine computes with JavaScript numbers.  The model       *)
(* computes the same expressions, in the same order, in exact arithmetic:  *)
(* every rate and score of a time slot is an integer count of 1/Unit, with *)
(* Unit chosen so that each division by a bucket size and each product     *)
(* with a one-decimal literal (0.7, 0.3, 0.6, 0.4) is exact.               *)
(*                                                                         *)
(* Strings.  A day name is one token; a map key `${day}-${hour}` is the    *)
(* token sequence <<day, "-", d1, .., dk>> with d1..dk the decimal digits  *)
(* of the hour; a time label `${h}:00 ${period}` is <<h, ":00 ", period>>. *)
(*                                                                         *)
(* Time.  A Date is a count of hours since a Monday 00:00 local time.      *)
(*                                                                         *)
(* Objects.  analyzeCombined assigns to the fields of objects it took out  *)
(* of a map, so its slots live in a heap (a sequence of objects) and the   *)
(* map holds references (positions in the heap); everywhere else a value   *)
(* is built once and never assigned to, and is modelled as a plain value.  *)
(***************************************************************************)
EXTENDS Integers, Sequences, FiniteSets, TLC

VARIABLES data, call, bpSeen, bestPracticesTable, prev, charts,
          rawData, norm, store, uploads, runs

\* the variables of the analysis engine and its callers
engineVars == <<data, call, bpSeen, bestPracticesTable, prev, charts>>

\* the variables of the file normalizer, the App and its store, and the
\* analyses in progress side by side
appVars == <<rawData, norm, store, uploads, runs>>

vars == <<data, call, bpSeen, bestPracticesTable, prev, charts,
          rawData, norm, store, uploads, runs>>

(***************************************************************************)
(* Bounds of the model                                                     *)
(***************************************************************************)
MaxRecs == 3
MaxClock == 1

(***************************************************************************)
(* Exact arithmetic                                                        *)
(***************************************************************************)
RECURSIVE Gcd(_, _)
Gcd(a, b) == IF b = 0 THEN a ELSE Gcd(b, a % b)

RECURSIVE LcmUpTo(_)
LcmUpTo(n) == IF n <= 1 THEN 1 ELSE (LcmUpTo(n - 1) * n) \div Gcd(LcmUpTo(n - 1), n)

Unit == 100 * LcmUpTo(MaxRecs)

\* the number n as a count of 1/Unit
Num(n) == n * Unit

\* x * 0.t for the one-decimal literal 0.t
MulTenths(x, t) == (x * t) \div 10

RECURSIVE SumOver(_, _)
SumOver(s, field) ==
    IF s = <<>> THEN 0 ELSE s[1][field] + SumOver(Tail(s), field)

\* a total that is not divided by the number of records
MeanUndivided(records, field) == Num(SumOver(records, field))

\* records.reduce((sum, r) => sum + r.<field>, 0) / records.length
Mean(records, field) == Num(SumOver(records, field)) \div Len(records)

(***************************************************************************)
(* Dates: validation.ts getDayOfWeek / getHourOfDay / formatTimeLabel      *)
(***************************************************************************)
\* Date.getDay(): 0 = Sunday .. 6 = Saturday; hour 0 of the model is a Monday
getDay(date) == ((date \div 24) + 1) % 7

getDayOfWeek(date) ==
    LET days == <<"Sunday", "Monday", "Tuesday", "Wednesday", "Thursday",
                  "Friday", "Saturday">>
    IN  days[getDay(date) + 1]

getHourOfDay(date) == date % 24

formatTimeLabel(hour) ==
    LET period == IF hour >= 12 THEN "PM" ELSE "AM"
        displayHour == IF hour = 0 THEN 12 ELSE IF hour > 12 THEN hour - 12 ELSE hour
    IN  <<displayHour, ":00 ", period>>

(***************************************************************************)
(* Input records                                                           *)
(***************************************************************************)
\* Tuesday 10:00, Thursday 14:00, Friday 16:00 of the first week
SendDates == {34, 86, 112}

\* <<sendDate, <<openRate, clickRate>>>> of the campaigns a file may hold:
\* two on Tuesday 10:00, one on Thursday 14:00 with the rates of the first,
\* one on Friday 16:00
Campaigns ==
    {<<34, <<40, 5>>>>, <<34, <<60, 15>>>>, <<86, <<40, 5>>>>, <<112, <<10, 1>>>>}

\* the record processEmailData pushes for a row sent at sendDate
ProcessedRow(sendDate, rates) ==
    [sendDate |-> sendDate,
     dayOfWeek |-> getDayOfWeek(sendDate),
     hourOfDay |-> getHourOfDay(sendDate),
     openRate |-> rates[1],
     clickRate |-> rates[2]]

Rows == {ProcessedRow(c[1], c[2]) : c \in Campaigns}

AllFilters == [businessUnit |-> "All", organizationType |-> "All", campaignType |-> "All"]

FilterChoices ==
    {AllFilters,
     [businessUnit |-> "Legal", organizationType |-> "All", campaignType |-> "Newsletter"]}

AnalysisTypes == {"best-practices", "historical", "combined"}

\* the values successive new Date() calls of one analysis return
ClockReadings ==
    {c \in (0..MaxClock) \X (0..MaxClock) \X (0..MaxClock) : c[1] <= c[2] /\ c[2] <= c[3]}

(***************************************************************************)
(* BEST_PRACTICES                                                          *)
(***************************************************************************)
BEST_PRACTICES ==
    << [dayOfWeek |-> "Tuesday",   hourOfDay |-> 10, timeLabel |-> <<10, ":00 ", "AM">>, score |-> 95],
       [dayOfWeek |-> "Thursday",  hourOfDay |-> 14, timeLabel |-> <<2, ":00 ", "PM">>,  score |-> 90],
       [dayOfWeek |-> "Wednesday", hourOfDay |-> 9,  timeLabel |-> <<9, ":00 ", "AM">>,  score |-> 85],
       [dayOfWeek |-> "Tuesday",   hourOfDay |-> 14, timeLabel |-> <<2, ":00 ", "PM">>,  score |-> 82],
       [dayOfWeek |-> "Thursday",  hourOfDay |-> 10, timeLabel |-> <<10, ":00 ", "AM">>, score |-> 80] >>

(***************************************************************************)
(* Map keys: `${row.dayOfWeek}-${row.hourOfDay}`, key.split("-"), parseInt *)
(***************************************************************************)
DigitChars == <<"0", "1", "2", "3", "4", "5", "6", "7", "8", "9">>

IsDigit(c) == \E v \in 1..10 : DigitChars[v] = c

DigitValue(c) == (CHOOSE v \in 1..10 : DigitChars[v] = c) - 1

\* String(n) for a non-negative integer n
RECURSIVE NumberToString(_)
NumberToString(n) ==
    IF n < 10 THEN <<DigitChars[n + 1]>>
    ELSE NumberToString(n \div 10) \o <<DigitChars[(n % 10) + 1]>>

\* `${dayOfWeek}-${hourOfDay}`
SlotKey(dayOfWeek, hourOfDay) == <<dayOfWeek, "-">> \o NumberToString(hourOfDay)

\* String.prototype.split(sep)
RECURSIVE Split(_, _)
Split(s, sep) ==
    IF s = <<>> THEN << <<>> >>
    ELSE LET rest == Split(Tail(s), sep)
         IN  IF s[1] = sep THEN << <<>> >> \o rest
             ELSE << <<s[1]>> \o rest[1] >> \o Tail(rest)

NaN == "NaN"

RECURSIVE ParseLeadingDigits(_, _)
ParseLeadingDigits(s, acc) ==
    IF s = <<>> \/ ~IsDigit(s[1]) THEN acc
    ELSE ParseLeadingDigits(Tail(s), acc * 10 + DigitValue(s[1]))

\* parseInt(str): the leading decimal digits, NaN when there are none
parseInt(s) ==
    IF s = <<>> \/ ~IsDigit(s[1]) THEN NaN ELSE ParseLeadingDigits(s, 0)

\* the text of a split part that holds a day name (one token) or is empty
PartText(part) == IF part = <<>> THEN "" ELSE part[1]

(***************************************************************************)
(* Map<string, V> as its entries in insertion order                        *)
(***************************************************************************)
MapHas(map, key) == \E i \in 1..Len(map) : map[i].key = key

MapIndex(map, key) == CHOOSE i \in 1..Len(map) : map[i].key = key

\* map.set(key, value): a new key goes last, an existing key keeps its place
MapSet(map, key, value) ==
    IF MapHas(map, key)
    THEN [map EXCEPT ![MapIndex(map, key)].value = value]
    ELSE Append(map, [key |-> key, value |-> value])

MapGet(map, key) == map[MapIndex(map, key)].value

\* Array.from(map.values())
MapValues(map) == [i \in 1..Len(map) |-> map[i].value]

(***************************************************************************)
(* analyzeBestPractices                                                    *)
(***************************************************************************)
\* a best-practice slot whose click rate is not estimated from the score
BestPracticeSlotNoEstimate(bp) ==
    [dayOfWeek |-> bp.dayOfWeek,
     hourOfDay |-> bp.hourOfDay,
     timeLabel |-> bp.timeLabel,
     avgOpenRate |-> Num(bp.score),
     avgClickRate |-> Num(bp.score),
     sampleSize |-> 0,
     score |-> Num(bp.score)]

BestPracticeSlot(bp) ==
    [dayOfWeek |-> bp.dayOfWeek,
     hourOfDay |-> bp.hourOfDay,
     timeLabel |-> bp.timeLabel,
     avgOpenRate |-> Num(bp.score),
     avgClickRate |-> MulTenths(Num(bp.score), 3),
     sampleSize |-> 0,
     score |-> Num(bp.score)]

\* BEST_PRACTICES.map((bp) => ({...})): new objects, in the order of the array
BestPracticeSlots == [i \in 1..Len(bestPracticesTable) |-> BestPracticeSlot(bestPracticesTable[i])]

\* a best-practices analysis that lists the table from its last entry
analyzeBestPracticesReversed(clock) ==
    LET n == Len(bestPracticesTable)
        allTimeSlots == [i \in 1..n |-> BestPracticeSlots[n + 1 - i]]
    IN  [primary |-> allTimeSlots[1],
         secondary |-> allTimeSlots[2],
         tertiary |-> allTimeSlots[3],
         allTimeSlots |-> allTimeSlots,
         metadata |->
             [totalRecords |-> 0,
              dateRange |-> [start |-> clock[1], end |-> clock[2]],
              filters |-> AllFilters,
              analysisType |-> "best-practices",
              timestamp |-> clock[3]]]

analyzeBestPractices(clock) ==
    LET allTimeSlots == BestPracticeSlots
    IN  [primary |-> allTimeSlots[1],
         secondary |-> allTimeSlots[2],
         tertiary |-> allTimeSlots[3],
         allTimeSlots |-> allTimeSlots,
         metadata |->
             [totalRecords |-> 0,
              dateRange |-> [start |-> clock[1], end |-> clock[2]],
              filters |-> AllFilters,
              analysisType |-> "best-practices",
              timestamp |-> clock[3]]]

(***************************************************************************)
(* analyzeHistoricalData                                                   *)
(***************************************************************************)
createEmptyTimeSlot ==
    [dayOfWeek |-> "N/A",
     hourOfDay |-> 0,
     timeLabel |-> <<"N/A">>,
     avgOpenRate |-> 0,
     avgClickRate |-> 0,
     sampleSize |-> 0,
     score |-> 0]

\* a missing place filled with the best slot instead of the empty one
SlotOrFirst(slots, i) ==
    IF i + 1 <= Len(slots) THEN slots[i + 1]
    ELSE IF Len(slots) > 0 THEN slots[1] ELSE createEmptyTimeSlot

\* slots[i] || createEmptyTimeSlot(), i counted from 0
SlotOrEmpty(slots, i) == IF i + 1 <= Len(slots) THEN slots[i + 1] ELSE createEmptyTimeSlot

\* a grouping loop that starts the bucket anew for every row
RECURSIVE GroupRowsOverwriting(_, _)
GroupRowsOverwriting(rows, timeSlotMap) ==
    IF rows = <<>> THEN timeSlotMap
    ELSE LET row == rows[1]
             key == SlotKey(row.dayOfWeek, row.hourOfDay)
         IN  GroupRowsOverwriting(Tail(rows), MapSet(timeSlotMap, key, <<row>>))

\* the loop that fills timeSlotMap
RECURSIVE GroupRows(_, _)
GroupRows(rows, timeSlotMap) ==
    IF rows = <<>> THEN timeSlotMap
    ELSE LET row == rows[1]
             key == SlotKey(row.dayOfWeek, row.hourOfDay)
             withKey == IF MapHas(timeSlotMap, key) THEN timeSlotMap
                        ELSE MapSet(timeSlotMap, key, <<>>)
         IN  GroupRows(Tail(rows), MapSet(withKey, key, Append(MapGet(withKey, key), row)))

\* statistics whose score weighs the click rate 70% and the open rate 30%
TimeSlotStatsSwappedWeights(key, records) ==
    LET parts == Split(key, "-")
        dayOfWeek == PartText(parts[1])
        hourOfDay == parseInt(parts[2])
        avgOpenRate == Mean(records, "openRate")
        avgClickRate == Mean(records, "clickRate")
        score == MulTenths(avgOpenRate, 3) + MulTenths(avgClickRate, 7)
    IN  [dayOfWeek |-> dayOfWeek,
         hourOfDay |-> hourOfDay,
         timeLabel |-> formatTimeLabel(hourOfDay),
         avgOpenRate |-> avgOpenRate,
         avgClickRate |-> avgClickRate,
         sampleSize |-> Len(records),
         score |-> score]

\* the statistics of one entry of timeSlotMap
TimeSlotStats(key, records) ==
    LET parts == Split(key, "-")
        dayOfWeek == PartText(parts[1])
        hourOfDay == parseInt(parts[2])
        avgOpenRate == Mean(records, "openRate")
        avgClickRate == Mean(records, "clickRate")
        score == MulTenths(avgOpenRate, 7) + MulTenths(avgClickRate, 3)
    IN  [dayOfWeek |-> dayOfWeek,
         hourOfDay |-> hourOfDay,
         timeLabel |-> formatTimeLabel(hourOfDay),
         avgOpenRate |-> avgOpenRate,
         avgClickRate |-> avgClickRate,
         sampleSize |-> Len(records),
         score |-> score]

\* an insertion that puts x ahead of the elements of its own score
RECURSIVE InsertBeforeEqual(_, _)
InsertBeforeEqual(sorted, x) ==
    IF sorted = <<>> THEN <<x>>
    ELSE IF sorted[1].score > x.score
         THEN <<sorted[1]>> \o InsertBeforeEqual(Tail(sorted), x)
         ELSE <<x>> \o sorted

\* the place of x in a list kept in non-increasing score order: after every
\* element the comparator (a, b) => b.score - a.score does not put behind it
RECURSIVE InsertByScore(_, _)
InsertByScore(sorted, x) ==
    IF sorted = <<>> THEN <<x>>
    ELSE IF sorted[1].score >= x.score
         THEN <<sorted[1]>> \o InsertByScore(Tail(sorted), x)
         ELSE <<x>> \o sorted

RECURSIVE SortInto(_, _)
SortInto(sorted, slots) ==
    IF slots = <<>> THEN sorted
    ELSE SortInto(InsertByScore(sorted, slots[1]), Tail(slots))

\* a ranking that keeps the map's iteration order
SortByScoreSkipped(slots) == slots

\* slots.sort((a, b) => b.score - a.score), a stable sort
SortByScore(slots) == SortInto(<<>>, slots)

\* the first date, as if the records came in the order of their dates
MinOfFirst(s) == s[1]

RECURSIVE MinOf(_)
MinOf(s) ==
    IF Len(s) = 1 THEN s[1]
    ELSE LET m == MinOf(Tail(s)) IN IF s[1] <= m THEN s[1] ELSE m

RECURSIVE MaxOf(_)
MaxOf(s) ==
    IF Len(s) = 1 THEN s[1]
    ELSE LET m == MaxOf(Tail(s)) IN IF s[1] >= m THEN s[1] ELSE m

Ok(value) == [kind |-> "ok", value |-> value]

Thrown(message) == [kind |-> "error", message |-> message]

HistoricalTimeSlots(rows) ==
    LET timeSlotMap == GroupRows(rows, <<>>)
        timeSlots == [i \in 1..Len(timeSlotMap) |->
                          TimeSlotStats(timeSlotMap[i].key, timeSlotMap[i].value)]
    IN  SortByScore(timeSlots)

\* analyzeHistoricalData past its empty-data check
HistoricalResult(rows, filters, clock) ==
    LET timeSlots == HistoricalTimeSlots(rows)
        dates == [i \in 1..Len(rows) |-> rows[i].sendDate]
    IN  [primary |-> SlotOrEmpty(timeSlots, 0),
         secondary |-> SlotOrEmpty(timeSlots, 1),
         tertiary |-> SlotOrEmpty(timeSlots, 2),
         allTimeSlots |-> timeSlots,
         metadata |->
             [totalRecords |-> Len(rows),
              dateRange |-> [start |-> MinOf(dates), end |-> MaxOf(dates)],
              filters |-> filters,
              analysisType |-> "historical",
              timestamp |-> clock[1]]]

\* a historical analysis whose date range ends at the time of the call
analyzeHistoricalDataUntilNow(rows, filters, clock) ==
    IF Len(rows) = 0 THEN Thrown("No data available for analysis")
    ELSE Ok([HistoricalResult(rows, filters, clock) EXCEPT
                !.metadata.dateRange.end = clock[1]])

analyzeHistoricalData(rows, filters, clock) ==
    IF Len(rows) = 0 THEN Thrown("No data available for analysis")
    ELSE Ok(HistoricalResult(rows, filters, clock))

(***************************************************************************)
(* analyzeCombined                                                         *)
(***************************************************************************)
\* a copy of a historical slot that keeps its full score
HistoricalCopyUnscaled(slot) == slot

\* { ...slot, score: slot.score * 0.6 }: a new object
HistoricalCopy(slot) == [slot EXCEPT !.score = MulTenths(slot.score, 6)]

\* a loop that scales the score of the historical slot itself and puts that
\* slot, not a copy of it, into combinedMap
RECURSIVE AddHistoricalInPlace(_, _)
AddHistoricalInPlace(refs, st) ==
    IF refs = <<>> THEN st
    ELSE LET slot == st.heap[refs[1]]
             key == SlotKey(slot.dayOfWeek, slot.hourOfDay)
         IN  AddHistoricalInPlace(Tail(refs),
                 [heap |-> [st.heap EXCEPT ![refs[1]] = HistoricalCopy(slot)],
                  map |-> MapSet(st.map, key, refs[1])])

\* the loop that copies the historical slots into combinedMap; refs are the
\* places of the historical slots in the heap
RECURSIVE AddHistorical(_, _)
AddHistorical(refs, st) ==
    IF refs = <<>> THEN st
    ELSE LET slot == st.heap[refs[1]]
             key == SlotKey(slot.dayOfWeek, slot.hourOfDay)
             heap == Append(st.heap, HistoricalCopy(slot))
         IN  AddHistorical(Tail(refs),
                 [heap |-> heap, map |-> MapSet(st.map, key, Len(heap))])

\* a merge that blends the score but leaves the historical rates as they are
MergeBestPracticeScoreOnly(existing, slot) ==
    [existing EXCEPT !.score = existing.score + MulTenths(slot.score, 4)]

\* the branch taken for a best-practice slot whose key is in combinedMap
MergeBestPractice(existing, slot) ==
    [existing EXCEPT
        !.score = existing.score + MulTenths(slot.score, 4),
        !.avgOpenRate = MulTenths(existing.avgOpenRate, 6) + MulTenths(slot.avgOpenRate, 4),
        !.avgClickRate = MulTenths(existing.avgClickRate, 6) + MulTenths(slot.avgClickRate, 4)]

\* an inserted best-practice slot that keeps its full score
NewBestPracticeUnscaled(slot) == [slot EXCEPT !.sampleSize = 0]

\* the branch taken for a best-practice slot whose key is not in combinedMap
NewBestPractice(slot) ==
    [slot EXCEPT !.score = MulTenths(slot.score, 4), !.sampleSize = 0]

\* the loop that adds or merges the best-practice slots; refs are the places
\* of the best-practice slots in the heap
RECURSIVE AddBestPractices(_, _)
AddBestPractices(refs, st) ==
    IF refs = <<>> THEN st
    ELSE LET slot == st.heap[refs[1]]
             key == SlotKey(slot.dayOfWeek, slot.hourOfDay)
         IN  AddBestPractices(Tail(refs),
                 IF MapHas(st.map, key)
                 THEN LET existing == MapGet(st.map, key)
                      IN  [heap |-> [st.heap EXCEPT
                                        ![existing] = MergeBestPractice(st.heap[existing], slot)],
                           map |-> st.map]
                 ELSE LET heap == Append(st.heap, NewBestPractice(slot))
                      IN  [heap |-> heap, map |-> MapSet(st.map, key, Len(heap))])

\* the heap and combinedMap after both loops: the historical slots are the
\* objects 1..n of the heap, the best-practice slots the objects n+1..n+m
CombinedMap(historicalSlots, bestPracticeSlots) ==
    LET n == Len(historicalSlots)
        m == Len(bestPracticeSlots)
        start == [heap |-> historicalSlots \o bestPracticeSlots, map |-> <<>>]
    IN  AddBestPractices([i \in 1..m |-> n + i],
                         AddHistorical([i \in 1..n |-> i], start))

\* a combination that lists the scaled historical and best-practice slots
\* side by side, without bringing the slots of one key together
CombinedTimeSlotsUnmerged(historicalSlots, bestPracticeSlots) ==
    SortByScore([i \in 1..Len(historicalSlots) |-> HistoricalCopy(historicalSlots[i])]
                \o [i \in 1..Len(bestPracticeSlots) |-> NewBestPractice(bestPracticeSlots[i])])

CombinedTimeSlots(historicalSlots, bestPracticeSlots) ==
    LET st == CombinedMap(historicalSlots, bestPracticeSlots)
        values == MapValues(st.map)
    IN  SortByScore([i \in 1..Len(values) |-> st.heap[values[i]]])

\* analyzeCombined past its empty-data check
CombinedResult(rows, filters, clock) ==
    LET historical == analyzeHistoricalData(rows, filters, clock).value
        bestPractices == analyzeBestPractices(clock)
        allTimeSlots == CombinedTimeSlots(historical.allTimeSlots,
                                          bestPractices.allTimeSlots)
    IN  Ok([primary |-> SlotOrEmpty(allTimeSlots, 0),
            secondary |-> SlotOrEmpty(allTimeSlots, 1),
            tertiary |-> SlotOrEmpty(allTimeSlots, 2),
            allTimeSlots |-> allTimeSlots,
            metadata |->
                [totalRecords |-> Len(rows),
                 dateRange |-> historical.metadata.dateRange,
                 filters |-> filters,
                 analysisType |-> "combined",
                 timestamp |-> clock[3]]])

\* a combined analysis that lets the historical analysis fail on empty data
analyzeCombinedNoFallback(rows, filters, clock) ==
    IF Len(rows) = 0 THEN analyzeHistoricalData(rows, filters, clock)
    ELSE CombinedResult(rows, filters, clock)

analyzeCombined(rows, filters, clock) ==
    IF Len(rows) = 0 THEN Ok(analyzeBestPractices(clock))
    ELSE CombinedResult(rows, filters, clock)

(***************************************************************************)
(* performAnalysis                                                         *)
(***************************************************************************)
\* a dispatch that sends historical requests to the combined analysis
performAnalysisHistoricalAsCombined(rows, analysisType, filters, clock) ==
    CASE analysisType = "best-practices" -> Ok(analyzeBestPractices(clock))
      [] analysisType = "historical" -> analyzeCombined(rows, filters, clock)
      [] analysisType = "combined" -> analyzeCombined(rows, filters, clock)
      [] OTHER -> Thrown("Unknown analysis type")

performAnalysis(rows, analysisType, filters, clock) ==
    CASE analysisType = "best-practices" -> Ok(analyzeBestPractices(clock))
      [] analysisType = "historical" -> analyzeHistoricalData(rows, filters, clock)
      [] analysisType = "combined" -> analyzeCombined(rows, filters, clock)
      [] OTHER -> Thrown("Unknown analysis type")

(***************************************************************************)
(* The normalizer: dataParser.ts processEmailData / filterData and         *)
(* validation.ts parseRate / parseDateTime                                  *)
(*                                                                         *)
(* A cell of a parsed file is undefined, a string (its characters, with a  *)
(* name or another run of letters as one token) or a number.  The dates of *)
(* the files are written 2024-01-DD, so that day 01 is a Monday, and the   *)
(* times HH:MM.                                                            *)
(***************************************************************************)
Undefined == [kind |-> "undefined"]

Str(text) == [kind |-> "string", text |-> text]

Number(value) == [kind |-> "number", value |-> value]

\* the truthiness of a cell: undefined, "" and 0 are falsy
Truthy(v) ==
    CASE v.kind = "string" -> v.text # <<>>
      [] v.kind = "number" -> v.value # 0
      [] OTHER -> FALSE

\* value.toString() of a string or a number
toString(v) ==
    IF v.kind = "string" THEN v.text
    ELSE IF v.value < 0 THEN <<"-">> \o NumberToString(0 - v.value)
         ELSE NumberToString(v.value)

RECURSIVE TrimStart(_)
TrimStart(text) ==
    IF text # <<>> /\ text[1] = " " THEN TrimStart(Tail(text)) ELSE text

RECURSIVE TrimEnd(_)
TrimEnd(text) ==
    IF text # <<>> /\ text[Len(text)] = " "
    THEN TrimEnd(SubSeq(text, 1, Len(text) - 1))
    ELSE text

\* String.prototype.trim()
Trim(text) == TrimEnd(TrimStart(text))

\* the string a trimmed name is: one token, or "" when nothing is left
NameText(text) == IF text = <<>> THEN "" ELSE text[1]

\* value.replace("%", ""): the first occurrence goes
RECURSIVE RemoveFirst(_, _)
RemoveFirst(text, c) ==
    IF text = <<>> THEN <<>>
    ELSE IF text[1] = c THEN Tail(text)
         ELSE <<text[1]>> \o RemoveFirst(Tail(text), c)

\* parseFloat(str) of a text without fraction or exponent: an optional
\* sign and the leading digits, NaN when there are none
parseFloat(s) ==
    LET negative == s # <<>> /\ s[1] = "-"
        digits == IF negative THEN Tail(s) ELSE s
    IN  IF digits = <<>> \/ ~IsDigit(digits[1])
        THEN [isNaN |-> TRUE]
        ELSE [isNaN |-> FALSE,
              value |-> IF negative THEN 0 - ParseLeadingDigits(digits, 0)
                        ELSE ParseLeadingDigits(digits, 0)]

parseRate(value) ==
    IF value.kind = "number" THEN value.value
    ELSE IF value.kind = "string"
         THEN LET cleaned == Trim(RemoveFirst(value.text, "%"))
                  parsed == parseFloat(cleaned)
              IN  IF parsed.isNaN THEN 0 ELSE parsed.value
         ELSE 0

\* new Date(`2024-01-DD HH:MM`): the hours since Monday 2024-01-01 00:00, or
\* an invalid date for any other text
NewDate(s) ==
    LET wellFormed ==
            /\ Len(s) = 9
            /\ s[1] = "2024-01-" /\ IsDigit(s[2]) /\ IsDigit(s[3])
            /\ s[4] = " "
            /\ IsDigit(s[5]) /\ IsDigit(s[6])
            /\ s[7] = ":"
            /\ IsDigit(s[8]) /\ IsDigit(s[9])
        day == 10 * DigitValue(s[2]) + DigitValue(s[3])
        hour == 10 * DigitValue(s[5]) + DigitValue(s[6])
        minute == 10 * DigitValue(s[8]) + DigitValue(s[9])
    IN  IF wellFormed /\ day \in 1..31 /\ hour \in 0..23 /\ minute \in 0..59
        THEN [isNaN |-> FALSE, time |-> (day - 1) * 24 + hour]
        ELSE [isNaN |-> TRUE]

Null == [kind |-> "null"]

parseDateTime(dateStr, timeStr) ==
    LET dateTimeStr == dateStr \o <<" ">> \o timeStr
        date == NewDate(dateTimeStr)
    IN  IF date.isNaN THEN Null ELSE [kind |-> "date", time |-> date.time]

\* a default of midnight for a row without send time
SendTimeOrMidnight(sendTime) ==
    IF Truthy(sendTime) THEN toString(sendTime) ELSE <<"0", "0", ":", "0", "0">>

\* sendTime ? sendTime.toString() : "12:00"
SendTimeOrDefault(sendTime) ==
    IF Truthy(sendTime) THEN toString(sendTime) ELSE <<"1", "2", ":", "0", "0">>

\* value ? value.toString().trim() : "Unknown"
NameOrUnknown(value) ==
    IF Truthy(value) THEN NameText(Trim(toString(value))) ELSE "Unknown"

\* value || 0
OrZero(value) == IF Truthy(value) THEN value ELSE Number(0)

\* the body of the loop of processEmailData: the records pushed for one row
ProcessRow(row) ==
    IF ~Truthy(row.sendDate) THEN <<>>
    ELSE IF row.openRate = Undefined \/ row.openRate = Str(<<>>) THEN <<>>
    ELSE LET dateTime == parseDateTime(toString(row.sendDate),
                                       SendTimeOrDefault(row.sendTime))
         IN  IF dateTime = Null THEN <<>>
             ELSE <<[businessUnit |-> NameOrUnknown(row.businessUnit),
                     organizationType |-> NameOrUnknown(row.organizationType),
                     campaignType |-> NameOrUnknown(row.campaignType),
                     sendDate |-> dateTime.time,
                     sendTime |-> Trim(SendTimeOrDefault(row.sendTime)),
                     dayOfWeek |-> getDayOfWeek(dateTime.time),
                     hourOfDay |-> getHourOfDay(dateTime.time),
                     openRate |-> parseRate(row.openRate),
                     clickRate |-> parseRate(OrZero(row.clickRate)),
                     unsubscribeRate |-> parseRate(OrZero(row.unsubscribeRate)),
                     bounceRate |-> parseRate(OrZero(row.bounceRate))]>>

RECURSIVE processEmailData(_)
processEmailData(rows) ==
    IF rows = <<>> THEN <<>>
    ELSE ProcessRow(rows[1]) \o processEmailData(Tail(rows))

\* a filter field that is left out of the filters object
Absent == "undefined"

\* filters.<field> && filters.<field> !== "All"
Restricts(value) == value # Absent /\ value # "" /\ value # "All"

\* a test that looks at the business unit only
RowPassesBusinessUnitOnly(row, filters) ==
    ~(Restricts(filters.businessUnit) /\ row.businessUnit # filters.businessUnit)

\* the callback of data.filter
RowPasses(row, filters) ==
    /\ ~(Restricts(filters.businessUnit) /\ row.businessUnit # filters.businessUnit)
    /\ ~(Restricts(filters.organizationType)
         /\ row.organizationType # filters.organizationType)
    /\ ~(Restricts(filters.campaignType) /\ row.campaignType # filters.campaignType)

filterData(records, filters) == SelectSeq(records, LAMBDA row : RowPasses(row, filters))

(***************************************************************************)
(* The caller: it assembles a collection of records, analyses it any       *)
(* number of times in any mode, and starts over with a new collection.     *)
(*   data    the records collection handed to the analyzer                 *)
(*   call    the latest performAnalysis call: its arguments and outcome    *)
(*   bpSeen  the ranked list and top 3 of every best-practices result      *)
(*           returned so far                                               *)
(*   bestPracticesTable  the module-level array BEST_PRACTICES             *)
(*   prev    the call made before the latest one on the same collection,   *)
(*           as the caller still holds it                                  *)
(*   charts  the chart data computed from the collection                   *)
(*   rawData the rows parseFile read from a file, before normalization     *)
(*   norm    the latest processEmailData or filterData call                *)
(*   store   the state of the zustand store useAppStore                    *)
(*   uploads the handleFileUpload invocations, each with its own position  *)
(*   runs    the analyses in progress side by side, each with its own      *)
(*           records and locals                                            *)
(***************************************************************************)
NoCall == [kind |-> "none"]

Ranking(result) ==
    [allTimeSlots |-> result.allTimeSlots,
     primary |-> result.primary,
     secondary |-> result.secondary,
     tertiary |-> result.tertiary]

NoCharts == [kind |-> "none"]

\* the state create() builds the store with
InitialStore ==
    [currentFile |-> Null,
     currentData |-> <<>>,
     currentResults |-> Null,
     analysisType |-> "best-practices",
     filters |-> AllFilters,
     isLoading |-> FALSE,
     error |-> Null,
     recentFiles |-> <<>>,
     analysisHistory |-> <<>>,
     settings |-> [autoSaveResults |-> TRUE, maxHistoryItems |-> 20],
     idsIssued |-> 0]

\* the handleFileUpload invocations and the analyses that may be in progress
\* at one time
Invocations == {1, 2}

Idle == [pc |-> "idle"]

Init ==
    /\ data = <<>>
    /\ call = NoCall
    /\ bpSeen = {}
    /\ bestPracticesTable = BEST_PRACTICES
    /\ prev = NoCall
    /\ charts = NoCharts
    /\ rawData = <<>>
    /\ norm = NoCall
    /\ store = InitialStore
    /\ uploads = [u \in Invocations |-> Idle]
    /\ runs = [r \in Invocations |-> Idle]

\* processEmailData pushes one more processed row
AppendRecord ==
    /\ call = NoCall
    /\ Len(data) < MaxRecs
    /\ \E row \in Rows : data' = Append(data, row)
    /\ UNCHANGED <<call, bpSeen, bestPracticesTable, prev, charts>>
    /\ UNCHANGED appVars

\* performAnalysis(data, analysisType, filters): the call returns or throws;
\* it assigns to nothing but objects it has made itself
PerformAnalysis(analysisType, filters, clock) ==
    LET outcome == performAnalysis(data, analysisType, filters, clock)
    IN  /\ call' = [kind |-> "call",
                    records |-> data,
                    analysisType |-> analysisType,
                    filters |-> filters,
                    outcome |-> outcome]
        /\ bpSeen' = IF analysisType = "best-practices"
                     THEN bpSeen \cup {Ranking(outcome.value)}
                     ELSE bpSeen
        /\ UNCHANGED <<data, bestPracticesTable, charts>>
        /\ UNCHANGED appVars

Analyze ==
    /\ \E analysisType \in AnalysisTypes, filters \in FilterChoices, clock \in ClockReadings :
           PerformAnalysis(analysisType, filters, clock)
    /\ UNCHANGED prev

\* the next upload replaces the collection
NewCollection ==
    /\ call # NoCall
    /\ data' = <<>>
    /\ call' = NoCall
    /\ prev' = NoCall
    /\ UNCHANGED <<bpSeen, bestPracticesTable, charts>>
    /\ UNCHANGED appVars

Next == AppendRecord \/ Analyze \/ NewCollection

Spec == Init /\ [][Next]_vars

(***************************************************************************)
(* The caller that keeps the result of its first call on a collection      *)
(* while it calls the analyzer a second time on the same collection, in    *)
(* any mode, with the filters of the first call.                           *)
(***************************************************************************)
FirstCall ==
    /\ call = NoCall
    /\ \E analysisType \in AnalysisTypes, filters \in FilterChoices, clock \in ClockReadings :
           PerformAnalysis(analysisType, filters, clock)
    /\ UNCHANGED prev

\* the second call: any mode, the filters of the first call
SecondCall ==
    /\ call # NoCall
    /\ prev = NoCall
    /\ \E analysisType \in AnalysisTypes, clock \in ClockReadings :
           PerformAnalysis(analysisType, call.filters, clock)
    /\ prev' = call

TwoCallNext == AppendRecord \/ FirstCall \/ SecondCall \/ NewCollection

TwoCallSpec == Init /\ [][TwoCallNext]_vars

(***************************************************************************)
(* Chart data: getHeatmapData, getTimeDistribution                         *)
(***************************************************************************)
\* the campaigns of a file that is charted: those of Campaigns, one on
\* Monday 16:00 (the hour of the Friday one) and one on Sunday 09:00
ChartCampaigns == Campaigns \cup {<<16, <<30, 3>>>>, <<153, <<20, 2>>>>}

ChartRows == {ProcessedRow(c[1], c[2]) : c \in ChartCampaigns}

\* Array.from({ length: 24 }, (_, i) => i)
Hours == [i \in 1..24 |-> i - 1]

\* the body of the inner loop: the entry pushed for (day, hour), if any
HeatmapCell(records, day, hour) ==
    LET matching == SelectSeq(records,
                        LAMBDA r : r.dayOfWeek = day /\ r.hourOfDay = hour)
    IN  IF Len(matching) > 0
        THEN <<[day |-> day,
                hour |-> hour,
                value |-> Mean(matching, "openRate"),
                count |-> Len(matching)]>>
        ELSE <<>>

\* for (const hour of hours)
RECURSIVE HeatmapHours(_, _, _)
HeatmapHours(records, day, hours) ==
    IF hours = <<>> THEN <<>>
    ELSE HeatmapCell(records, day, hours[1]) \o HeatmapHours(records, day, Tail(hours))

\* for (const day of days)
RECURSIVE HeatmapDays(_, _)
HeatmapDays(records, days) ==
    IF days = <<>> THEN <<>>
    ELSE HeatmapHours(records, days[1], Hours) \o HeatmapDays(records, Tail(days))

\* a heatmap whose week starts on Sunday, as Date.getDay() counts it
getHeatmapDataSundayFirst(records) ==
    HeatmapDays(records, <<"Sunday", "Monday", "Tuesday", "Wednesday", "Thursday",
                           "Friday", "Saturday">>)

getHeatmapData(records) ==
    HeatmapDays(records, <<"Monday", "Tuesday", "Wednesday", "Thursday", "Friday",
                           "Saturday", "Sunday">>)

\* for (const row of data) hourCounts.set(row.hourOfDay, count + 1)
RECURSIVE CountHours(_, _)
CountHours(records, hourCounts) ==
    IF records = <<>> THEN hourCounts
    ELSE LET row == records[1]
             got == IF MapHas(hourCounts, row.hourOfDay)
                    THEN MapGet(hourCounts, row.hourOfDay)
                    ELSE 0
             \* hourCounts.get(row.hourOfDay) || 0
             count == IF got = 0 THEN 0 ELSE got
         IN  CountHours(Tail(records), MapSet(hourCounts, row.hourOfDay, count + 1))

\* ([hour, count]) => ({ hour, timeLabel: formatTimeLabel(hour), count })
HourEntry(entry) ==
    [hour |-> entry.key, timeLabel |-> formatTimeLabel(entry.key), count |-> entry.value]

\* the place of x in a list kept in non-decreasing hour order: after every
\* element the comparator (a, b) => a.hour - b.hour does not put behind it
RECURSIVE InsertByHour(_, _)
InsertByHour(sorted, x) ==
    IF sorted = <<>> THEN <<x>>
    ELSE IF sorted[1].hour - x.hour <= 0
         THEN <<sorted[1]>> \o InsertByHour(Tail(sorted), x)
         ELSE <<x>> \o sorted

RECURSIVE SortByHourInto(_, _)
SortByHourInto(sorted, entries) ==
    IF entries = <<>> THEN sorted
    ELSE SortByHourInto(InsertByHour(sorted, entries[1]), Tail(entries))

\* a distribution that keeps the map's iteration order
getTimeDistributionUnsorted(records) ==
    LET hourCounts == CountHours(records, <<>>)
    IN  [i \in 1..Len(hourCounts) |-> HourEntry(hourCounts[i])]

getTimeDistribution(records) ==
    LET hourCounts == CountHours(records, <<>>)
    IN  SortByHourInto(<<>>, [i \in 1..Len(hourCounts) |-> HourEntry(hourCounts[i])])

\* processEmailData pushes one more processed row of a file that is charted
AppendChartRecord ==
    /\ charts = NoCharts
    /\ Len(data) < MaxRecs
    /\ \E row \in ChartRows : data' = Append(data, row)
    /\ UNCHANGED <<call, bpSeen, bestPracticesTable, prev, charts>>
    /\ UNCHANGED appVars

\* getHeatmapData(data)
Heatmap ==
    /\ charts' = [kind |-> "heatmap", records |-> data, value |-> getHeatmapData(data)]
    /\ UNCHANGED <<data, call, bpSeen, bestPracticesTable, prev>>
    /\ UNCHANGED appVars

\* const timeDistribution = getTimeDistribution(data)
TimeDistribution ==
    /\ charts' = [kind |-> "distribution",
                  records |-> data,
                  value |-> getTimeDistribution(data)]
    /\ UNCHANGED <<data, call, bpSeen, bestPracticesTable, prev>>
    /\ UNCHANGED appVars

\* the next upload replaces the collection and its charts
NewChartCollection ==
    /\ charts # NoCharts
    /\ data' = <<>>
    /\ charts' = NoCharts
    /\ UNCHANGED <<call, bpSeen, bestPracticesTable, prev>>
    /\ UNCHANGED appVars

ChartNext == AppendChartRecord \/ Heatmap \/ TimeDistribution \/ NewChartCollection

ChartSpec == Init /\ [][ChartNext]_vars

(***************************************************************************)
(* The caller of the normalizer: it reads the rows of a file, normalizes   *)
(* them, filters the records, filters the outcome once more with the same  *)
(* filters, and starts over with the next file.                            *)
(***************************************************************************)
RawRow(names, sendDate, sendTime, rates) ==
    [businessUnit |-> names[1],
     organizationType |-> names[2],
     campaignType |-> names[3],
     sendDate |-> sendDate,
     sendTime |-> sendTime,
     openRate |-> rates[1],
     clickRate |-> rates[2],
     unsubscribeRate |-> rates[3],
     bounceRate |-> rates[4]]

LegalNewsletter == <<Str(<<"Legal">>), Str(<<"Law Firm">>), Str(<<"Newsletter">>)>>

\* the rows a file may hold: well-formed ones, one with blanks around its
\* names, one without names, and rows without send date, send time or open
\* rate, with a date or a time that is none, and with rates outside 0..100
RawRows ==
    {RawRow(LegalNewsletter, Str(<<"2024-01-", "0", "2">>), Str(<<"1", "0", ":", "0", "0">>),
            <<Str(<<"4", "0", "%">>), Str(<<"5">>), Number(1), Undefined>>),
     RawRow(<<Str(<<" ", "Tax", " ">>), Str(<<"Corporate">>), Str(<<"Newsletter">>)>>,
            Str(<<"2024-01-", "0", "7">>), Undefined,
            <<Number(60), Undefined, Undefined, Str(<<>>)>>),
     RawRow(<<Undefined, Str(<<" ">>), Str(<<"Promotion">>)>>,
            Str(<<"2024-01-", "0", "4">>), Str(<<"2", "3", ":", "5", "9">>),
            <<Str(<<"n/a">>), Number(0), Str(<<"abc">>), Str(<<" ", "2", "%">>)>>),
     RawRow(LegalNewsletter, Str(<<"2024-01-", "0", "5">>), Str(<<"1", "6", ":", "3", "0">>),
            <<Str(<<"1", "5", "0", "%">>), Str(<<"-", "5">>), Number(101), Number(0 - 1)>>),
     RawRow(LegalNewsletter, Undefined, Str(<<"1", "0", ":", "0", "0">>),
            <<Number(40), Number(5), Number(0), Number(0)>>),
     RawRow(LegalNewsletter, Str(<<"soon">>), Str(<<"1", "0", ":", "0", "0">>),
            <<Number(40), Number(5), Number(0), Number(0)>>),
     RawRow(LegalNewsletter, Str(<<"2024-01-", "0", "2">>), Str(<<"2", "5", ":", "0", "0">>),
            <<Number(40), Number(5), Number(0), Number(0)>>),
     RawRow(LegalNewsletter, Str(<<"2024-01-", "0", "2">>), Str(<<"1", "0", ":", "0", "0">>),
            <<Str(<<>>), Number(5), Number(0), Number(0)>>)}

\* the filters a caller may pass: per field "All", a name, or no value
NormalizerFilters ==
    [businessUnit : {"All", Absent, "Legal", "Unknown"},
     organizationType : {"All", "Law Firm"},
     campaignType : {"All", Absent, "Newsletter"}]

\* parseFile reads one more row of the file
AppendRawRow ==
    /\ norm = NoCall
    /\ Len(rawData) < MaxRecs
    /\ \E row \in RawRows : rawData' = Append(rawData, row)
    /\ UNCHANGED <<norm, store, uploads, runs>>
    /\ UNCHANGED engineVars

\* const processed = processEmailData(rawData)
ProcessEmailData ==
    /\ norm = NoCall
    /\ norm' = [kind |-> "processed", value |-> processEmailData(rawData)]
    /\ UNCHANGED <<rawData, store, uploads, runs>>
    /\ UNCHANGED engineVars

\* const filtered = filterData(processed, filters)
FilterData ==
    /\ norm.kind = "processed"
    /\ \E filters \in NormalizerFilters :
           norm' = [kind |-> "filtered",
                    records |-> norm.value,
                    filters |-> filters,
                    value |-> filterData(norm.value, filters)]
    /\ UNCHANGED <<rawData, store, uploads, runs>>
    /\ UNCHANGED engineVars

\* filterData(filtered, filters) with the filters of the call before
FilterAgain ==
    /\ norm.kind = "filtered"
    /\ norm' = [kind |-> "refiltered",
                records |-> norm.value,
                filters |-> norm.filters,
                value |-> filterData(norm.value, norm.filters)]
    /\ UNCHANGED <<rawData, store, uploads, runs>>
    /\ UNCHANGED engineVars

\* the next file
NewRawFile ==
    /\ norm # NoCall
    /\ rawData' = <<>>
    /\ norm' = NoCall
    /\ UNCHANGED <<store, uploads, runs>>
    /\ UNCHANGED engineVars

NormalizerNext ==
    AppendRawRow \/ ProcessEmailData \/ FilterData \/ FilterAgain \/ NewRawFile

NormalizerSpec == Init /\ [][NormalizerNext]_vars

(***************************************************************************)
(* The store: store/useAppStore.ts                                         *)
(*   idsIssued  the number of ids `${Date.now()}-${Math.random()...}` made *)
(*              so far; the id made next is idsIssued + 1, a new one       *)
(***************************************************************************)
\* an error message: the parts a join or a template puts together
Message(text) == [kind |-> "message", text |-> text]

\* Array.prototype.slice(0, n) for n >= 0
Slice(s, n) == SubSeq(s, 1, IF n < Len(s) THEN n ELSE Len(s))

\* a history that takes the new analysis at its end
addToHistoryAtEnd(st, analysis) ==
    [st EXCEPT !.analysisHistory =
                   Slice(Append(st.analysisHistory, analysis), st.settings.maxHistoryItems)]

addToHistory(st, analysis) ==
    LET newHistory == <<analysis>> \o st.analysisHistory
        limitedHistory == Slice(newHistory, st.settings.maxHistoryItems)
        fileExists == \E i \in 1..Len(st.recentFiles) :
                          st.recentFiles[i].fileName = analysis.fileName
        recentFile == [id |-> analysis.id,
                       fileName |-> analysis.fileName,
                       uploadDate |-> analysis.timestamp,
                       rowCount |-> Len(st.currentData),
                       filters |-> analysis.filters]
    IN  [st EXCEPT
            !.analysisHistory = limitedHistory,
            !.recentFiles = IF ~fileExists /\ st.currentFile # Null
                            THEN Slice(<<recentFile>> \o st.recentFiles,
                                       st.settings.maxHistoryItems)
                            ELSE @]

\* the analysis setCurrentResults stores: now is the value of new Date()
StoredAnalysis(st, results, now) ==
    [id |-> st.idsIssued + 1,
     fileName |-> st.currentFile.name,
     timestamp |-> now,
     filters |-> st.filters,
     results |-> results,
     analysisType |-> st.analysisType]

setCurrentResults(st, results, now) ==
    LET state == [st EXCEPT !.currentResults = results]
    IN  IF results # Null /\ state.settings.autoSaveResults /\ state.currentFile # Null
        THEN addToHistory([state EXCEPT !.idsIssued = @ + 1],
                          StoredAnalysis(state, results, now))
        ELSE state

clearHistory(st) == [st EXCEPT !.analysisHistory = <<>>, !.recentFiles = <<>>]

updateSettings(st, maxHistoryItems) ==
    [st EXCEPT !.settings = [@ EXCEPT !.maxHistoryItems = maxHistoryItems]]

(***************************************************************************)
(* Files and their validation: dataParser.ts parseFile, validation.ts      *)
(* validateEmailData                                                       *)
(***************************************************************************)
REQUIRED_COLUMNS ==
    <<"Business Unit", "Organization Type", "Campaign Type", "Send Date", "Send Time",
      "Open Rate">>

AllColumns ==
    {REQUIRED_COLUMNS[i] : i \in 1..Len(REQUIRED_COLUMNS)}
    \cup {"Click Rate", "Unsubscribe Rate", "Bounce Rate"}

\* what parseFile settles with: the rows under their columns, or an Error
Parsed(columns, rows) == [kind |-> "ok", columns |-> columns, rows |-> rows]

TaxPromotion == <<Str(<<"Tax">>), Str(<<"Corporate">>), Str(<<"Promotion">>)>>

\* the files a user may upload: two with valid rows, one without the Open
\* Rate column, one whose rows have no send date, one parseFile rejects
Files ==
    {[name |-> "campaigns.csv",
      parse |-> Parsed(AllColumns,
                   <<RawRow(LegalNewsletter, Str(<<"2024-01-", "0", "2">>),
                            Str(<<"1", "0", ":", "0", "0">>),
                            <<Str(<<"4", "0", "%">>), Str(<<"5">>), Undefined, Undefined>>),
                     RawRow(TaxPromotion, Str(<<"2024-01-", "0", "4">>),
                            Str(<<"1", "4", ":", "0", "0">>),
                            <<Number(60), Str(<<"1", "5">>), Undefined, Undefined>>)>>)],
     [name |-> "followup.csv",
      parse |-> Parsed(AllColumns,
                   <<RawRow(TaxPromotion, Str(<<"2024-01-", "0", "5">>),
                            Str(<<"1", "6", ":", "0", "0">>),
                            <<Number(10), Number(1), Undefined, Undefined>>)>>)],
     [name |-> "clicks.csv",
      parse |-> Parsed(AllColumns \ {"Open Rate"},
                   <<RawRow(LegalNewsletter, Str(<<"2024-01-", "0", "2">>),
                            Str(<<"1", "0", ":", "0", "0">>),
                            <<Undefined, Str(<<"5">>), Undefined, Undefined>>)>>)],
     [name |-> "undated.csv",
      parse |-> Parsed(AllColumns,
                   <<RawRow(LegalNewsletter, Str(<<>>), Str(<<"1", "0", ":", "0", "0">>),
                            <<Number(40), Number(5), Undefined, Undefined>>)>>)],
     [name |-> "notes.txt",
      parse |-> Thrown("Unsupported file format: txt. Please upload a CSV or Excel file.")]}

\* validateEmailData(rawData).errors
ValidationErrors(parsed) ==
    IF Len(parsed.rows) = 0 THEN <<"No data provided">>
    ELSE LET missingColumns ==
                 SelectSeq(REQUIRED_COLUMNS, LAMBDA col : col \notin parsed.columns)
         IN  IF Len(missingColumns) > 0
             THEN <<"Missing required columns">> \o missingColumns
             ELSE <<>>

validateEmailData(parsed) ==
    [isValid |-> Len(ValidationErrors(parsed)) = 0, errors |-> ValidationErrors(parsed)]

(***************************************************************************)
(* The App: App.tsx handleFileUpload, handleAnalysisTypeChange,            *)
(* handleFilterChange, handleAnalyze.  A handler runs to completion once   *)
(* started, except that handleFileUpload waits for parseFile to settle;    *)
(* other handlers, a second handleFileUpload among them, run meanwhile.    *)
(***************************************************************************)
MaxAnalyses == 2

\* handleFileUpload up to its await
UploadBegin(st, file) ==
    [st EXCEPT !.isLoading = TRUE,
               !.error = Null,
               !.currentFile = file,
               !.filters = AllFilters]

\* an upload that leaves the loading flag as it is when no row is valid
UploadFinishStillLoading(st, file, analysisType, clock, now) ==
    IF file.parse.kind = "error"
    THEN [st EXCEPT !.error = Message(<<file.parse.message>>), !.isLoading = FALSE]
    ELSE LET validation == validateEmailData(file.parse)
             processed == processEmailData(file.parse.rows)
             withData == [st EXCEPT !.currentData = processed]
             filtered == filterData(processed, AllFilters)
             outcome == performAnalysis(filtered, analysisType, AllFilters, clock)
         IN  IF ~validation.isValid
             THEN [st EXCEPT !.error = Message(validation.errors), !.isLoading = FALSE]
             ELSE IF Len(processed) = 0
             THEN [st EXCEPT !.error =
                      Message(<<"No valid data found in the file after processing.">>)]
             ELSE IF outcome.kind = "error"
             THEN [withData EXCEPT !.error = Message(<<outcome.message>>),
                                   !.isLoading = FALSE]
             ELSE [setCurrentResults(withData, outcome.value, now) EXCEPT
                      !.isLoading = FALSE]

\* handleFileUpload from the moment parseFile settles; analysisType is the
\* value the handler closed over when it was started
UploadFinish(st, file, analysisType, clock, now) ==
    IF file.parse.kind = "error"
    THEN [st EXCEPT !.error = Message(<<file.parse.message>>), !.isLoading = FALSE]
    ELSE LET validation == validateEmailData(file.parse)
             processed == processEmailData(file.parse.rows)
             withData == [st EXCEPT !.currentData = processed]
             filtered == filterData(processed, AllFilters)
             outcome == performAnalysis(filtered, analysisType, AllFilters, clock)
         IN  IF ~validation.isValid
             THEN [st EXCEPT !.error = Message(validation.errors), !.isLoading = FALSE]
             ELSE IF Len(processed) = 0
             THEN [st EXCEPT !.error =
                      Message(<<"No valid data found in the file after processing.">>),
                             !.isLoading = FALSE]
             ELSE IF outcome.kind = "error"
             THEN [withData EXCEPT !.error = Message(<<outcome.message>>),
                                   !.isLoading = FALSE]
             ELSE [setCurrentResults(withData, outcome.value, now) EXCEPT
                      !.isLoading = FALSE]

handleAnalysisTypeChange(st, newType, clock, now) ==
    LET typed == [st EXCEPT !.analysisType = newType]
        filtered == filterData(st.currentData, st.filters)
        outcome == performAnalysis(filtered, newType, st.filters, clock)
    IN  IF Len(st.currentData) > 0
        THEN IF outcome.kind = "error"
             THEN [typed EXCEPT !.error = Message(<<outcome.message>>)]
             ELSE setCurrentResults(typed, outcome.value, now)
        ELSE typed

handleFilterChange(st, newFilters) == [st EXCEPT !.filters = newFilters]

handleAnalyze(st, clock, now) ==
    LET cleared == [st EXCEPT !.error = Null]
        filtered == filterData(st.currentData, st.filters)
        outcome == performAnalysis(filtered, st.analysisType, st.filters, clock)
    IN  IF Len(st.currentData) > 0
        THEN IF Len(filtered) = 0
             THEN setCurrentResults(
                      [cleared EXCEPT !.error =
                          Message(<<"No data available for analysis with the selected filters. Please adjust your filter selections.">>)],
                      Null, now)
             ELSE IF outcome.kind = "error"
             THEN setCurrentResults([cleared EXCEPT !.error = Message(<<outcome.message>>)],
                                    Null, now)
             ELSE setCurrentResults(cleared, outcome.value, now)
        ELSE st

\* getUniqueValues(data, field): the values FilterPanel offers besides "All"
getUniqueValues(records, field) ==
    {records[i][field] : i \in 1..Len(records)} \ {""}

\* the filters FilterPanel can send with the data at hand
OfferedFilters(records) ==
    [businessUnit : {"All"} \cup getUniqueValues(records, "businessUnit"),
     organizationType : {"All"},
     campaignType : {"All"} \cup getUniqueValues(records, "campaignType")]

\* the readings of the clock by a handler of the App: the App is followed
\* within the first tick of the clock, where every new Date() returns 0;
\* what the clock does to a result is followed in TwoCallSpec
AppClock == <<0, 0, 0>>

Parsing == {u \in Invocations : uploads[u].pc = "parsing"}

\* room for one more analysis within the bound of the model
MayAnalyse == store.idsIssued + Cardinality(Parsing) < MaxAnalyses

\* a file is chosen or dropped: handleFileUpload runs up to await parseFile
UploadStart(u) ==
    /\ uploads[u].pc = "idle"
    /\ \A v \in Invocations : v < u => uploads[v].pc = "parsing"
    /\ MayAnalyse
    /\ \E file \in Files :
           /\ store' = UploadBegin(store, file)
           /\ uploads' = [uploads EXCEPT ![u] = [pc |-> "parsing",
                                                 file |-> file,
                                                 analysisType |-> store.analysisType]]
    /\ UNCHANGED <<rawData, norm, runs>>
    /\ UNCHANGED engineVars

\* parseFile settles and handleFileUpload runs to its end
UploadSettle(u) ==
    /\ uploads[u].pc = "parsing"
    /\ store' = UploadFinish(store, uploads[u].file, uploads[u].analysisType,
                             AppClock, AppClock[3])
    /\ uploads' = [uploads EXCEPT ![u] = Idle]
    /\ UNCHANGED <<rawData, norm, runs>>
    /\ UNCHANGED engineVars

HandleAnalysisTypeChange ==
    /\ MayAnalyse
    /\ \E newType \in AnalysisTypes :
           store' = handleAnalysisTypeChange(store, newType, AppClock, AppClock[3])
    /\ UNCHANGED <<rawData, norm, uploads, runs>>
    /\ UNCHANGED engineVars

HandleFilterChange ==
    /\ Len(store.currentData) > 0
    /\ \E newFilters \in OfferedFilters(store.currentData) :
           store' = handleFilterChange(store, newFilters)
    /\ UNCHANGED <<rawData, norm, uploads, runs>>
    /\ UNCHANGED engineVars

HandleAnalyze ==
    /\ Len(store.currentData) > 0
    /\ MayAnalyse
    /\ store' = handleAnalyze(store, AppClock, AppClock[3])
    /\ UNCHANGED <<rawData, norm, uploads, runs>>
    /\ UNCHANGED engineVars

AppNext ==
    \/ \E u \in Invocations : UploadStart(u)
    \/ \E u \in Invocations : UploadSettle(u)
    \/ HandleAnalysisTypeChange
    \/ HandleFilterChange
    \/ HandleAnalyze

AppSpec == Init /\ [][AppNext]_vars

(***************************************************************************)
(* The App with one upload at a time: no file is chosen or dropped while   *)
(* another is parsed.                                                      *)
(***************************************************************************)
OneUploadNext ==
    \/ UploadStart(1)
    \/ UploadSettle(1)
    \/ HandleAnalysisTypeChange
    \/ HandleFilterChange
    \/ HandleAnalyze

OneUploadSpec == Init /\ [][OneUploadNext]_vars

(***************************************************************************)
(* The uploads by themselves: files are chosen and dropped, one while the  *)
(* other is parsed, and the analysis type is changed in between; parseFile *)
(* settles every upload in the end.                                        *)
(***************************************************************************)
UploadNext ==
    \/ \E u \in Invocations : UploadStart(u)
    \/ \E u \in Invocations : UploadSettle(u)
    \/ HandleAnalysisTypeChange

\* what UploadSettle(u) does to the invocation u
ParseFileSettles(u) ==
    /\ uploads[u].pc = "parsing"
    /\ uploads' = [uploads EXCEPT ![u] = Idle]

\* parseFile settles: an upload that stays in progress is taken to its end
UploadLiveSpec ==
    /\ Init /\ [][UploadNext]_vars
    /\ \A u \in Invocations : WF_uploads(ParseFileSettles(u))

(***************************************************************************)
(* The store by itself: any sequence of setCurrentFile, setCurrentResults, *)
(* addToHistory and clearHistory, after settings.maxHistoryItems was set.  *)
(***************************************************************************)
MaxHistoryItems == 2
MaxHistoryCalls == 4

\* updateSettings({ maxHistoryItems }) before anything is stored
UpdateSettings ==
    /\ store.idsIssued = 0
    /\ \E maxHistoryItems \in 1..MaxHistoryItems :
           store' = updateSettings(store, maxHistoryItems)
    /\ UNCHANGED <<rawData, norm, uploads, runs>>
    /\ UNCHANGED engineVars

\* the files whose analyses are stored
StoredFiles == {file \in Files : file.name \in {"campaigns.csv", "followup.csv"}}

SetCurrentFile ==
    /\ \E file \in StoredFiles : store' = [store EXCEPT !.currentFile = file]
    /\ UNCHANGED <<rawData, norm, uploads, runs>>
    /\ UNCHANGED engineVars

\* setCurrentResults(results) with null or the result of an analysis
SetCurrentResults ==
    /\ store.idsIssued < MaxHistoryCalls
    /\ \E results \in {Null, analyzeBestPractices(AppClock)} :
           store' = setCurrentResults(store, results, AppClock[3])
    /\ UNCHANGED <<rawData, norm, uploads, runs>>
    /\ UNCHANGED engineVars

\* addToHistory(analysis) with an analysis of a new id
AddToHistory ==
    /\ store.idsIssued < MaxHistoryCalls
    /\ \E file \in StoredFiles :
           store' = addToHistory([store EXCEPT !.idsIssued = @ + 1],
                                 [id |-> store.idsIssued + 1,
                                  fileName |-> file.name,
                                  timestamp |-> AppClock[3],
                                  filters |-> store.filters,
                                  results |-> analyzeBestPractices(AppClock),
                                  analysisType |-> "best-practices"])
    /\ UNCHANGED <<rawData, norm, uploads, runs>>
    /\ UNCHANGED engineVars

ClearHistory ==
    /\ store' = clearHistory(store)
    /\ UNCHANGED <<rawData, norm, uploads, runs>>
    /\ UNCHANGED engineVars

HistoryNext ==
    UpdateSettings \/ SetCurrentFile \/ SetCurrentResults \/ AddToHistory \/ ClearHistory

HistorySpec == Init /\ [][HistoryNext]_vars

(***************************************************************************)
(* Analyses in progress side by side.  performAnalysis has no await, so    *)
(* one JavaScript thread runs a call to its end; callers on several        *)
(* threads that share the module interleave the steps of their calls.      *)
(* Each call has its own records, filters and locals (historical,          *)
(* bestPractices, combinedMap); the calls share bestPracticesTable.        *)
(***************************************************************************)
\* the collections the callers hold: none, one or two campaigns
RunCollections ==
    {<<>>,
     <<ProcessedRow(34, <<40, 5>>)>>,
     <<ProcessedRow(112, <<10, 1>>)>>,
     <<ProcessedRow(34, <<40, 5>>), ProcessedRow(86, <<40, 5>>)>>,
     <<ProcessedRow(34, <<60, 15>>), ProcessedRow(112, <<10, 1>>)>>}

\* the call has started and has not returned or thrown
InProgress(r) == runs[r].pc \notin {"idle", "done"}

\* another call is in progress while call r takes a step
Overlaps(r) == \E q \in Invocations \ {r} : InProgress(q)

\* a combinedMap at module level: every call in progress works on the one map
SetCombinedMapModuleLevel(rs, r, st) ==
    [q \in DOMAIN rs |->
        IF q = r \/ rs[q].pc \in {"loops", "merge", "sort"}
        THEN [rs[q] EXCEPT !.combined = st]
        ELSE rs[q]]

\* const combinedMap = new Map() and the writes of the two loops: the map and
\* the slots in it belong to the call that made them
SetCombinedMap(rs, r, st) == [rs EXCEPT ![r].combined = st]

\* the return statement of analyzeCombined
CombinedReturn(rows, filters, clock, historical, allTimeSlots) ==
    Ok([primary |-> SlotOrEmpty(allTimeSlots, 0),
        secondary |-> SlotOrEmpty(allTimeSlots, 1),
        tertiary |-> SlotOrEmpty(allTimeSlots, 2),
        allTimeSlots |-> allTimeSlots,
        metadata |->
            [totalRecords |-> Len(rows),
             dateRange |-> historical.metadata.dateRange,
             filters |-> filters,
             analysisType |-> "combined",
             timestamp |-> clock[3]]])

\* the call returns or throws: its locals are gone, the caller has the outcome
RunReturned(run, outcome, overlapped) ==
    [run EXCEPT !.pc = "done",
                !.historical = Undefined,
                !.bestPractices = Undefined,
                !.combined = Undefined,
                !.outcome = outcome,
                !.overlapped = overlapped]

\* a caller calls performAnalysis on its own collection
RunStart(r) ==
    /\ runs[r].pc = "idle"
    /\ \E records \in RunCollections, analysisType \in AnalysisTypes, filters \in FilterChoices :
           runs' = [runs EXCEPT ![r] =
                       [pc |-> "called",
                        records |-> records,
                        analysisType |-> analysisType,
                        filters |-> filters,
                        historical |-> Undefined,
                        bestPractices |-> Undefined,
                        combined |-> Undefined,
                        outcome |-> Undefined,
                        overlapped |-> Overlaps(r)]]
    /\ UNCHANGED <<engineVars, rawData, norm, store, uploads>>

\* the best-practices branch of performAnalysis, and analyzeCombined on an
\* empty collection: return analyzeBestPractices()
RunBestPractices(r) ==
    /\ runs[r].pc = "called"
    /\ \/ runs[r].analysisType = "best-practices"
       \/ runs[r].analysisType = "combined" /\ Len(runs[r].records) = 0
    /\ runs' = [runs EXCEPT ![r] =
                   RunReturned(runs[r], Ok(analyzeBestPractices(AppClock)),
                            runs[r].overlapped \/ Overlaps(r))]
    /\ UNCHANGED <<engineVars, rawData, norm, store, uploads>>

\* analyzeHistoricalData(data, filters): the whole of a historical call, the
\* first statement of a combined one
RunHistorical(r) ==
    /\ runs[r].pc = "called"
    /\ \/ runs[r].analysisType = "historical"
       \/ runs[r].analysisType = "combined" /\ Len(runs[r].records) > 0
    /\ LET outcome == analyzeHistoricalData(runs[r].records, runs[r].filters, AppClock)
           overlapped == runs[r].overlapped \/ Overlaps(r)
       IN  runs' = [runs EXCEPT ![r] =
                       IF runs[r].analysisType = "historical" \/ outcome.kind # "ok"
                       THEN RunReturned(runs[r], outcome, overlapped)
                       ELSE [runs[r] EXCEPT !.pc = "historical",
                                            !.historical = outcome.value,
                                            !.overlapped = overlapped]]
    /\ UNCHANGED <<engineVars, rawData, norm, store, uploads>>

\* const bestPractices = analyzeBestPractices(), which reads the table, and
\* const combinedMap = new Map()
RunGetBestPractices(r) ==
    /\ runs[r].pc = "historical"
    /\ LET bestPractices == analyzeBestPractices(AppClock)
           started == [runs EXCEPT ![r].pc = "loops",
                                   ![r].bestPractices = bestPractices,
                                   ![r].overlapped = runs[r].overlapped \/ Overlaps(r)]
       IN  runs' = SetCombinedMap(started, r,
                       [heap |-> runs[r].historical.allTimeSlots \o bestPractices.allTimeSlots,
                        map |-> <<>>])
    /\ UNCHANGED <<engineVars, rawData, norm, store, uploads>>

\* for (const slot of historical.allTimeSlots)
RunAddHistorical(r) ==
    /\ runs[r].pc = "loops"
    /\ LET n == Len(runs[r].historical.allTimeSlots)
           moved == [runs EXCEPT ![r].pc = "merge",
                                 ![r].overlapped = runs[r].overlapped \/ Overlaps(r)]
       IN  runs' = SetCombinedMap(moved, r,
                       AddHistorical([i \in 1..n |-> i], runs[r].combined))
    /\ UNCHANGED <<engineVars, rawData, norm, store, uploads>>

\* for (const slot of bestPractices.allTimeSlots)
RunAddBestPractices(r) ==
    /\ runs[r].pc = "merge"
    /\ LET n == Len(runs[r].historical.allTimeSlots)
           m == Len(runs[r].bestPractices.allTimeSlots)
           moved == [runs EXCEPT ![r].pc = "sort",
                                 ![r].overlapped = runs[r].overlapped \/ Overlaps(r)]
       IN  runs' = SetCombinedMap(moved, r,
                       AddBestPractices([i \in 1..m |-> n + i], runs[r].combined))
    /\ UNCHANGED <<engineVars, rawData, norm, store, uploads>>

\* Array.from(combinedMap.values()).sort(...) and the return statement
RunReturn(r) ==
    /\ runs[r].pc = "sort"
    /\ LET st == runs[r].combined
           values == MapValues(st.map)
           allTimeSlots == SortByScore([i \in 1..Len(values) |-> st.heap[values[i]]])
       IN  runs' = [runs EXCEPT ![r] =
                       RunReturned(runs[r],
                                CombinedReturn(runs[r].records, runs[r].filters, AppClock,
                                               runs[r].historical, allTimeSlots),
                                runs[r].overlapped \/ Overlaps(r))]
    /\ UNCHANGED <<engineVars, rawData, norm, store, uploads>>

\* the caller is done with the outcome
RunCollect(r) ==
    /\ runs[r].pc = "done"
    /\ runs' = [runs EXCEPT ![r] = Idle]
    /\ UNCHANGED <<engineVars, rawData, norm, store, uploads>>

ConcurrentNext ==
    \E r \in Invocations :
        \/ RunStart(r)
        \/ RunBestPractices(r)
        \/ RunHistorical(r)
        \/ RunGetBestPractices(r)
        \/ RunAddHistorical(r)
        \/ RunAddBestPractices(r)
        \/ RunReturn(r)
        \/ RunCollect(r)

ConcurrentSpec == Init /\ [][ConcurrentNext]_vars

(***************************************************************************)
(* Vocabulary of the properties                                            *)
(***************************************************************************)
Called(analysisType) == call.kind = "call" /\ call.analysisType = analysisType

Returned == call.kind = "call" /\ call.outcome.kind = "ok"

Result == call.outcome.value

\* the positions of the records sent at (dayOfWeek, hourOfDay)
RowsAt(records, dayOfWeek, hourOfDay) ==
    {i \in 1..Len(records) :
        records[i].dayOfWeek = dayOfWeek /\ records[i].hourOfDay = hourOfDay}

RECURSIVE TotalAt(_, _, _)
TotalAt(records, positions, field) ==
    IF positions = {} THEN 0
    ELSE LET i == CHOOSE i \in positions : TRUE
         IN  records[i][field] + TotalAt(records, positions \ {i}, field)

RECURSIVE SampleTotal(_)
SampleTotal(slots) ==
    IF slots = <<>> THEN 0 ELSE slots[1].sampleSize + SampleTotal(Tail(slots))

SlotsAt(slots, dayOfWeek, hourOfDay) ==
    {i \in 1..Len(slots) :
        slots[i].dayOfWeek = dayOfWeek /\ slots[i].hourOfDay = hourOfDay}

\* the records of the basic historical ranking scenario
ScenarioRecords ==
    <<ProcessedRow(34, <<40, 5>>), ProcessedRow(34, <<60, 15>>), ProcessedRow(112, <<10, 1>>)>>

(***************************************************************************)
(* C1: for non-empty records, the ranked list allTimeSlots returned in     *)
(* historical mode and in combined mode is in non-increasing score order:  *)
(* for all positions i < j, allTimeSlots[i].score >= allTimeSlots[j].score *)
(***************************************************************************)
RankedByScore ==
    (call.kind = "call" /\ call.analysisType \in {"historical", "combined"}
        /\ Len(call.records) > 0)
    => /\ Returned
       /\ \A i, j \in 1..Len(Result.allTimeSlots) :
              i < j => Result.allTimeSlots[i].score >= Result.allTimeSlots[j].score

\* a historical ranking of three buckets of different scores in which the
\* bucket met first in the records comes last
RankedByScoreWitness ==
    /\ Called("historical") /\ Returned
    /\ Len(Result.allTimeSlots) = 3
    /\ Result.allTimeSlots[1].score > Result.allTimeSlots[2].score
    /\ Result.allTimeSlots[2].score > Result.allTimeSlots[3].score
    /\ Result.allTimeSlots[3].dayOfWeek = call.records[1].dayOfWeek
    /\ Result.allTimeSlots[3].hourOfDay = call.records[1].hourOfDay

(***************************************************************************)
(* C2: in historical mode, for non-empty records, the sampleSize of the    *)
(* buckets of allTimeSlots sum to the number of input records, and every   *)
(* distinct (dayOfWeek, hourOfDay) pair of the records forms exactly one   *)
(* bucket, so distinct buckets have distinct keys.                         *)
(***************************************************************************)
SampleCoverage ==
    (Called("historical") /\ Len(call.records) > 0)
    => /\ Returned
       /\ SampleTotal(Result.allTimeSlots) = Len(call.records)
       /\ \A i, j \in 1..Len(Result.allTimeSlots) :
              (/\ Result.allTimeSlots[i].dayOfWeek = Result.allTimeSlots[j].dayOfWeek
               /\ Result.allTimeSlots[i].hourOfDay = Result.allTimeSlots[j].hourOfDay)
              => i = j
       /\ \A r \in 1..Len(call.records) :
              Cardinality(SlotsAt(Result.allTimeSlots, call.records[r].dayOfWeek,
                                  call.records[r].hourOfDay)) = 1
       /\ \A i \in 1..Len(Result.allTimeSlots) :
              RowsAt(call.records, Result.allTimeSlots[i].dayOfWeek,
                     Result.allTimeSlots[i].hourOfDay) # {}

\* three records in two buckets, the records of the larger bucket not adjacent
SampleCoverageWitness ==
    /\ Called("historical") /\ Returned
    /\ Len(call.records) = 3
    /\ Len(Result.allTimeSlots) = 2
    /\ call.records[1].sendDate = call.records[3].sendDate
    /\ call.records[1].sendDate # call.records[2].sendDate

(***************************************************************************)
(* C3: in historical mode each bucket's avgOpenRate (avgClickRate) is the  *)
(* arithmetic mean of openRate (clickRate) over exactly the input records  *)
(* whose (dayOfWeek, hourOfDay) is the bucket's key; every record is       *)
(* counted in one bucket and no more.                                      *)
(***************************************************************************)
MeanCorrectness ==
    (Called("historical") /\ Len(call.records) > 0)
    => /\ Returned
       /\ \A i \in 1..Len(Result.allTimeSlots) :
              LET slot == Result.allTimeSlots[i]
                  members == RowsAt(call.records, slot.dayOfWeek, slot.hourOfDay)
                  n == Cardinality(members)
              IN  /\ n > 0
                  /\ slot.sampleSize = n
                  /\ slot.avgOpenRate * n = Num(TotalAt(call.records, members, "openRate"))
                  /\ slot.avgClickRate * n = Num(TotalAt(call.records, members, "clickRate"))
       /\ \A r \in 1..Len(call.records) :
              Cardinality(SlotsAt(Result.allTimeSlots, call.records[r].dayOfWeek,
                                  call.records[r].hourOfDay)) = 1

\* a bucket of two records with different rates, whose mean is neither's rate,
\* next to a bucket of one record
MeanCorrectnessWitness ==
    /\ Called("historical") /\ Returned
    /\ \E i, j \in 1..Len(Result.allTimeSlots) :
          /\ Result.allTimeSlots[i].sampleSize = 2
          /\ Result.allTimeSlots[i].avgOpenRate = Num(50)
          /\ Result.allTimeSlots[i].avgClickRate = Num(10)
          /\ Result.allTimeSlots[j].sampleSize = 1
    /\ \E r \in 1..Len(call.records) : call.records[r].openRate = 40
    /\ \E r \in 1..Len(call.records) : call.records[r].openRate = 60

(***************************************************************************)
(* C4: in historical mode every bucket's score is its own                  *)
(* avgOpenRate * 0.7 + avgClickRate * 0.3.  For the records Tuesday-10     *)
(* {open 40, click 5}, Tuesday-10 {open 60, click 15}, Friday-16 {open 10, *)
(* click 1} the ranked list is Tuesday-10 (avgOpenRate 50, avgClickRate    *)
(* 10, score 38, sampleSize 2) ahead of Friday-16 (score 7.3, sampleSize 1)*)
(***************************************************************************)
HistoricalScore ==
    (Called("historical") /\ Len(call.records) > 0)
    => /\ Returned
       /\ \A i \in 1..Len(Result.allTimeSlots) :
              LET slot == Result.allTimeSlots[i]
              IN  10 * slot.score = 7 * slot.avgOpenRate + 3 * slot.avgClickRate
       /\ call.records = ScenarioRecords
          => /\ Len(Result.allTimeSlots) = 2
             /\ Result.allTimeSlots[1].dayOfWeek = "Tuesday"
             /\ Result.allTimeSlots[1].hourOfDay = 10
             /\ Result.allTimeSlots[1].avgOpenRate = Num(50)
             /\ Result.allTimeSlots[1].avgClickRate = Num(10)
             /\ Result.allTimeSlots[1].score = Num(38)
             /\ Result.allTimeSlots[1].sampleSize = 2
             /\ Result.allTimeSlots[2].dayOfWeek = "Friday"
             /\ Result.allTimeSlots[2].hourOfDay = 16
             /\ 10 * Result.allTimeSlots[2].score = Num(73)
             /\ Result.allTimeSlots[2].sampleSize = 1
             /\ Result.primary = Result.allTimeSlots[1]
             /\ Result.secondary = Result.allTimeSlots[2]

\* the historical analysis of the scenario's records
HistoricalScoreWitness ==
    /\ Called("historical") /\ Returned
    /\ call.records = ScenarioRecords

(***************************************************************************)
(* C5: performAnalysis in historical mode on an empty records collection   *)
(* throws "No data available for analysis" whatever the filters: the       *)
(* caller gets the error and no AnalysisResult.                            *)
(***************************************************************************)
EmptyHistoricalFails ==
    (Called("historical") /\ Len(call.records) = 0)
    => /\ call.outcome.kind = "error"
       /\ call.outcome.message = "No data available for analysis"
       /\ "value" \notin DOMAIN call.outcome

\* a historical call on no records with filters other than "All"
EmptyHistoricalFailsWitness ==
    /\ Called("historical")
    /\ call.records = <<>>
    /\ call.filters # AllFilters
    /\ call.outcome.kind = "error"

(***************************************************************************)
(* C6: performAnalysis in combined mode on an empty records collection     *)
(* raises no error and returns the primary, secondary and tertiary buckets *)
(* that best-practices mode returns, whatever the filters.                 *)
(***************************************************************************)
EmptyCombinedFallsBack ==
    (Called("combined") /\ Len(call.records) = 0)
    => /\ Returned
       /\ \A bp \in bpSeen :
              /\ Result.primary = bp.primary
              /\ Result.secondary = bp.secondary
              /\ Result.tertiary = bp.tertiary

\* a combined call on no records, with filters other than "All", after a
\* best-practices call has returned
EmptyCombinedFallsBackWitness ==
    /\ Called("combined") /\ Returned
    /\ call.records = <<>>
    /\ call.filters # AllFilters
    /\ bpSeen # {}

(***************************************************************************)
(* C7: best-practices mode returns the same 5 buckets in the table's order *)
(* (Tuesday-10, Thursday-14, Wednesday-9, Tuesday-14, Thursday-10)         *)
(* whatever the records and the filters: the ranked list and the top 3 of  *)
(* a call are those of every best-practices call before it.                *)
(***************************************************************************)
BestPracticesStable ==
    Called("best-practices")
    => /\ Returned
       /\ [i \in 1..Len(Result.allTimeSlots) |->
              <<Result.allTimeSlots[i].dayOfWeek, Result.allTimeSlots[i].hourOfDay>>]
          = << <<"Tuesday", 10>>, <<"Thursday", 14>>, <<"Wednesday", 9>>,
               <<"Tuesday", 14>>, <<"Thursday", 10>> >>
       /\ Result.primary = Result.allTimeSlots[1]
       /\ Result.secondary = Result.allTimeSlots[2]
       /\ Result.tertiary = Result.allTimeSlots[3]
       /\ \A bp \in bpSeen : bp = Ranking(Result)

\* a best-practices call on a full collection with filters other than "All"
BestPracticesStableWitness ==
    /\ Called("best-practices") /\ Returned
    /\ Len(call.records) = MaxRecs
    /\ call.filters # AllFilters
    /\ bpSeen # {}

(***************************************************************************)
(* C8: in best-practices mode the buckets are the table's entries, one     *)
(* bucket per entry, with sampleSize = 0, avgOpenRate = entry.score,       *)
(* avgClickRate = entry.score * 0.3 and score = entry.score.               *)
(***************************************************************************)
BestPracticeBuckets ==
    Called("best-practices")
    => /\ Returned
       /\ Len(Result.allTimeSlots) = Len(BEST_PRACTICES)
       /\ \A i \in 1..Len(BEST_PRACTICES) :
              LET slot == Result.allTimeSlots[i]
                  entry == BEST_PRACTICES[i]
              IN  /\ slot.dayOfWeek = entry.dayOfWeek
                  /\ slot.hourOfDay = entry.hourOfDay
                  /\ slot.sampleSize = 0
                  /\ slot.avgOpenRate = Num(entry.score)
                  /\ 10 * slot.avgClickRate = 3 * Num(entry.score)
                  /\ slot.score = Num(entry.score)

\* a best-practices call whose first bucket has the rates of the first entry
BestPracticeBucketsWitness ==
    /\ Called("best-practices") /\ Returned
    /\ call.records # <<>>
    /\ Result.allTimeSlots[1].avgOpenRate = Num(95)
    /\ 10 * Result.allTimeSlots[1].avgClickRate = Num(285)

(***************************************************************************)
(* C9: in combined mode, a best-practice entry whose (dayOfWeek,           *)
(* hourOfDay) is the key of a historical bucket gives one bucket with      *)
(* score = historical score * 0.6 + entry.score * 0.4,                     *)
(* avgOpenRate = historical avgOpenRate * 0.6 + entry.score * 0.4,         *)
(* avgClickRate = historical avgClickRate * 0.6 + (entry.score * 0.3) * 0.4*)
(* and the historical bucket's sampleSize.  Tuesday-10 of the scenario     *)
(* (score 38, avgOpenRate 50) with entry score 95 gives score 60.8 and     *)
(* avgOpenRate 68.                                                         *)
(***************************************************************************)
CombinedBlend ==
    (Called("combined") /\ Len(call.records) > 0)
    => /\ Returned
       /\ \A e \in 1..Len(BEST_PRACTICES) :
              LET entry == BEST_PRACTICES[e]
                  members == RowsAt(call.records, entry.dayOfWeek, entry.hourOfDay)
                  n == Cardinality(members)
                  totalOpen == Num(TotalAt(call.records, members, "openRate"))
                  totalClick == Num(TotalAt(call.records, members, "clickRate"))
                  found == SlotsAt(Result.allTimeSlots, entry.dayOfWeek, entry.hourOfDay)
              IN  n > 0 =>
                  /\ Cardinality(found) = 1
                  /\ \A i \in found :
                         LET slot == Result.allTimeSlots[i]
                         IN  /\ slot.sampleSize = n
                             \* n * historical score = (7 totalOpen + 3 totalClick) / 10
                             /\ 100 * n * slot.score
                                   = 6 * (7 * totalOpen + 3 * totalClick)
                                     + 40 * n * Num(entry.score)
                             /\ 10 * n * slot.avgOpenRate
                                   = 6 * totalOpen + 4 * n * Num(entry.score)
                             /\ 100 * n * slot.avgClickRate
                                   = 60 * totalClick + 12 * n * Num(entry.score)
       /\ call.records = ScenarioRecords
          => \E i \in 1..Len(Result.allTimeSlots) :
                 /\ Result.allTimeSlots[i].dayOfWeek = "Tuesday"
                 /\ Result.allTimeSlots[i].hourOfDay = 10
                 /\ 10 * Result.allTimeSlots[i].score = Num(608)
                 /\ Result.allTimeSlots[i].avgOpenRate = Num(68)
                 /\ Result.allTimeSlots[i].sampleSize = 2

\* the combined analysis of the scenario's records, Tuesday-10 blended
CombinedBlendWitness ==
    /\ Called("combined") /\ Returned
    /\ call.records = ScenarioRecords
    /\ \E i \in 1..Len(Result.allTimeSlots) :
          /\ Result.allTimeSlots[i].dayOfWeek = "Tuesday"
          /\ Result.allTimeSlots[i].hourOfDay = 10
          /\ Result.allTimeSlots[i].sampleSize = 2

(***************************************************************************)
(* C10: in combined mode with non-empty records, a best-practice entry     *)
(* whose (dayOfWeek, hourOfDay) is the key of no historical bucket is in   *)
(* the result as one bucket with score = entry.score * 0.4 and             *)
(* sampleSize = 0; Wednesday-9 (entry score 85) gets score 34.             *)
(***************************************************************************)
CombinedInsert ==
    (Called("combined") /\ Len(call.records) > 0)
    => /\ Returned
       /\ \A e \in 1..Len(BEST_PRACTICES) :
              LET entry == BEST_PRACTICES[e]
                  found == SlotsAt(Result.allTimeSlots, entry.dayOfWeek, entry.hourOfDay)
              IN  RowsAt(call.records, entry.dayOfWeek, entry.hourOfDay) = {} =>
                  /\ Cardinality(found) = 1
                  /\ \A i \in found :
                         /\ 10 * Result.allTimeSlots[i].score = 4 * Num(entry.score)
                         /\ Result.allTimeSlots[i].sampleSize = 0
       /\ \A i \in SlotsAt(Result.allTimeSlots, "Wednesday", 9) :
              Result.allTimeSlots[i].score = Num(34)

\* a combined analysis in which Tuesday-10 and Thursday-14 are historical
\* buckets and Wednesday-9 is inserted from the table with score 34
CombinedInsertWitness ==
    /\ Called("combined") /\ Returned
    /\ RowsAt(call.records, "Tuesday", 10) # {}
    /\ RowsAt(call.records, "Thursday", 14) # {}
    /\ \E i \in 1..Len(Result.allTimeSlots) :
          /\ Result.allTimeSlots[i].dayOfWeek = "Wednesday"
          /\ Result.allTimeSlots[i].hourOfDay = 9
          /\ Result.allTimeSlots[i].score = Num(34)
          /\ Result.allTimeSlots[i].sampleSize = 0

(***************************************************************************)
(* C11: in combined mode a bucket inserted for a best-practice entry that  *)
(* matches no historical bucket carries the entry's values scaled by 0.4   *)
(* in all three quantities: avgOpenRate = entry.avgOpenRate * 0.4 and      *)
(* avgClickRate = entry.avgClickRate * 0.4, like its score.                *)
(***************************************************************************)
CombinedInsertScalesRates ==
    (Called("combined") /\ Len(call.records) > 0)
    => /\ Returned
       /\ \A e \in 1..Len(BEST_PRACTICES) :
              LET entry == BEST_PRACTICES[e]
                  found == SlotsAt(Result.allTimeSlots, entry.dayOfWeek, entry.hourOfDay)
              IN  RowsAt(call.records, entry.dayOfWeek, entry.hourOfDay) = {} =>
                  \A i \in found :
                      /\ 10 * Result.allTimeSlots[i].score = 4 * Num(entry.score)
                      \* entry.avgOpenRate = entry.score
                      /\ 10 * Result.allTimeSlots[i].avgOpenRate = 4 * Num(entry.score)
                      \* entry.avgClickRate = entry.score * 0.3
                      /\ 100 * Result.allTimeSlots[i].avgClickRate = 12 * Num(entry.score)

(***************************************************************************)
(* C12: in combined mode every historical bucket whose key is the key of   *)
(* no best-practice entry is in the result with score = historical score   *)
(* * 0.6 and with the avgOpenRate, avgClickRate and sampleSize of the      *)
(* historical bucket.                                                      *)
(***************************************************************************)
CombinedHistoricalOnly ==
    (Called("combined") /\ Len(call.records) > 0)
    => /\ Returned
       /\ \A r \in 1..Len(call.records) :
              LET dayOfWeek == call.records[r].dayOfWeek
                  hourOfDay == call.records[r].hourOfDay
                  members == RowsAt(call.records, dayOfWeek, hourOfDay)
                  n == Cardinality(members)
                  totalOpen == Num(TotalAt(call.records, members, "openRate"))
                  totalClick == Num(TotalAt(call.records, members, "clickRate"))
                  found == SlotsAt(Result.allTimeSlots, dayOfWeek, hourOfDay)
              IN  (\A e \in 1..Len(BEST_PRACTICES) :
                       ~(/\ BEST_PRACTICES[e].dayOfWeek = dayOfWeek
                         /\ BEST_PRACTICES[e].hourOfDay = hourOfDay))
                  => /\ Cardinality(found) = 1
                     /\ \A i \in found :
                            LET slot == Result.allTimeSlots[i]
                            IN  /\ slot.sampleSize = n
                                /\ n * slot.avgOpenRate = totalOpen
                                /\ n * slot.avgClickRate = totalClick
                                \* n * historical score = (7 totalOpen + 3 totalClick) / 10
                                /\ 100 * n * slot.score = 6 * (7 * totalOpen + 3 * totalClick)

\* a combined result with the Friday-16 bucket of one record {open 10,
\* click 1}: score 7.3 * 0.6 = 4.38, next to a blended Tuesday-10
CombinedHistoricalOnlyWitness ==
    /\ Called("combined") /\ Returned
    /\ RowsAt(call.records, "Tuesday", 10) # {}
    /\ \E i \in 1..Len(Result.allTimeSlots) :
          /\ Result.allTimeSlots[i].dayOfWeek = "Friday"
          /\ Result.allTimeSlots[i].hourOfDay = 16
          /\ Result.allTimeSlots[i].sampleSize = 1
          /\ Result.allTimeSlots[i].avgOpenRate = Num(10)
          /\ 100 * Result.allTimeSlots[i].score = Num(438)

(***************************************************************************)
(* C13: in every AnalysisResult primary, secondary and tertiary are the    *)
(* first, second and third element of allTimeSlots; a position that        *)
(* allTimeSlots does not have holds the sentinel bucket (dayOfWeek "N/A",  *)
(* avgOpenRate, avgClickRate, score and sampleSize 0), and a call on       *)
(* records that form fewer than 3 buckets returns without an error.        *)
(***************************************************************************)
IsSentinel(slot) ==
    /\ slot.dayOfWeek = "N/A"
    /\ slot.avgOpenRate = 0
    /\ slot.avgClickRate = 0
    /\ slot.score = 0
    /\ slot.sampleSize = 0

TopThree ==
    /\ Returned =>
           LET slots == Result.allTimeSlots
               top == <<Result.primary, Result.secondary, Result.tertiary>>
           IN  \A k \in 1..3 :
                   IF k <= Len(slots) THEN top[k] = slots[k] ELSE IsSentinel(top[k])
    /\ (call.kind = "call" /\ Len(call.records) > 0) => Returned

\* a historical result of one bucket: the second and third place are empty
TopThreeWitness ==
    /\ Called("historical") /\ Returned
    /\ Len(call.records) = 2
    /\ Len(Result.allTimeSlots) = 1
    /\ Result.primary = Result.allTimeSlots[1]
    /\ Result.secondary.dayOfWeek = "N/A"
    /\ Result.tertiary.dayOfWeek = "N/A"

(***************************************************************************)
(* C14 as stated: for fixed records, mode and filters, two calls of        *)
(* performAnalysis yield identical outcomes, the ordering of allTimeSlots  *)
(* and the whole metadata (record count, date range, filters, mode,        *)
(* generation timestamp) included.                                         *)
(***************************************************************************)
SameArguments ==
    /\ prev.kind = "call"
    /\ call.kind = "call"
    /\ prev.records = call.records
    /\ prev.analysisType = call.analysisType
    /\ prev.filters = call.filters

Deterministic == SameArguments => call.outcome = prev.outcome

(***************************************************************************)
(* C14 amended: for fixed records, mode and filters, two calls both throw  *)
(* the same error or both return results with identical allTimeSlots (in   *)
(* the same order), primary, secondary, tertiary, record count, filters    *)
(* and mode, and, when the result is a historical or a combined one, an    *)
(* identical date range.  The generation timestamp, and the date range of  *)
(* a best-practices result, are the time of the call.                      *)
(***************************************************************************)
DeterministicButForClock ==
    SameArguments
    => /\ call.outcome.kind = prev.outcome.kind
       /\ call.outcome.kind = "error" => call.outcome = prev.outcome
       /\ call.outcome.kind = "ok" =>
              LET a == prev.outcome.value
                  b == call.outcome.value
              IN  /\ Ranking(a) = Ranking(b)
                  /\ a.metadata.totalRecords = b.metadata.totalRecords
                  /\ a.metadata.filters = b.metadata.filters
                  /\ a.metadata.analysisType = b.metadata.analysisType
                  /\ b.metadata.analysisType \in {"historical", "combined"}
                     => a.metadata.dateRange = b.metadata.dateRange

\* two historical calls on the same three records in three buckets, made at
\* different times
DeterministicButForClockWitness ==
    /\ SameArguments
    /\ call.analysisType = "historical"
    /\ call.outcome.kind = "ok"
    /\ Len(call.outcome.value.allTimeSlots) = 3
    /\ call.outcome.value.metadata.timestamp # prev.outcome.value.metadata.timestamp

(***************************************************************************)
(* C15: no performAnalysis call, in any mode, changes its records          *)
(* argument, a record or the BEST_PRACTICES table, and a later call leaves *)
(* the result of an earlier call as it was; combined mode blends into      *)
(* copies: when its loops are done, the slots of the historical result     *)
(* and of the best-practices result it started from are what they were.    *)
(***************************************************************************)
CombinedLeavesSlots(records) ==
    LET historicalSlots == HistoricalTimeSlots(records)
        st == CombinedMap(historicalSlots, BestPracticeSlots)
    IN  SubSeq(st.heap, 1, Len(historicalSlots) + Len(BestPracticeSlots))
            = historicalSlots \o BestPracticeSlots

NoMutation ==
    /\ [](bestPracticesTable = BEST_PRACTICES)
    /\ []((Called("combined") /\ Len(call.records) > 0) => CombinedLeavesSlots(call.records))
    /\ [][(call' # call /\ call'.kind = "call")
            => /\ data' = data
               /\ call'.records = data
               /\ bestPracticesTable' = bestPracticesTable
               /\ call.kind = "call" => prev' = call]_vars

\* a combined call that has blended Tuesday-10 and Thursday-14, made after a
\* historical call on the same records whose result the caller still holds
NoMutationWitness ==
    /\ prev.kind = "call" /\ prev.analysisType = "historical"
    /\ prev.outcome.kind = "ok"
    /\ Called("combined") /\ Returned
    /\ RowsAt(call.records, "Tuesday", 10) # {}
    /\ RowsAt(call.records, "Thursday", 14) # {}
    /\ prev.outcome.value.allTimeSlots = HistoricalTimeSlots(data)
    /\ data = call.records

(***************************************************************************)
(* C16: in every mode (best-practices, historical, combined, combined on   *)
(* empty records too) the filters in the result's metadata are the filters *)
(* the caller passed to performAnalysis.                                   *)
(***************************************************************************)
FiltersEchoed == Returned => Result.metadata.filters = call.filters

(***************************************************************************)
(* C17: in historical mode and in combined mode with non-empty records,    *)
(* metadata.dateRange.start is the minimum and metadata.dateRange.end the  *)
(* maximum of the send dates of the input records, and                     *)
(* metadata.totalRecords is the number of input records.                   *)
(***************************************************************************)
DateRangeAndCount ==
    (call.kind = "call" /\ call.analysisType \in {"historical", "combined"}
        /\ Len(call.records) > 0)
    => /\ Returned
       /\ Result.metadata.totalRecords = Len(call.records)
       /\ \E r \in 1..Len(call.records) :
              call.records[r].sendDate = Result.metadata.dateRange.start
       /\ \E r \in 1..Len(call.records) :
              call.records[r].sendDate = Result.metadata.dateRange.end
       /\ \A r \in 1..Len(call.records) :
              /\ Result.metadata.dateRange.start <= call.records[r].sendDate
              /\ call.records[r].sendDate <= Result.metadata.dateRange.end

\* a combined call on three records of which the first is neither the
\* earliest nor the latest
DateRangeAndCountWitness ==
    /\ Called("combined") /\ Returned
    /\ Len(call.records) = 3
    /\ Result.metadata.dateRange.start < call.records[1].sendDate
    /\ call.records[1].sendDate < Result.metadata.dateRange.end

(***************************************************************************)
(* C18: in historical mode two buckets of equal score are in allTimeSlots  *)
(* in the order in which their (dayOfWeek, hourOfDay) keys were first met  *)
(* in the input records.                                                   *)
(***************************************************************************)
FirstAt(records, dayOfWeek, hourOfDay) ==
    CHOOSE i \in RowsAt(records, dayOfWeek, hourOfDay) :
        \A j \in RowsAt(records, dayOfWeek, hourOfDay) : i <= j

StableTieBreak ==
    (Called("historical") /\ Len(call.records) > 0)
    => /\ Returned
       /\ \A i, j \in 1..Len(Result.allTimeSlots) :
              LET a == Result.allTimeSlots[i]
                  b == Result.allTimeSlots[j]
              IN  (i < j /\ a.score = b.score)
                  => FirstAt(call.records, a.dayOfWeek, a.hourOfDay)
                         < FirstAt(call.records, b.dayOfWeek, b.hourOfDay)

\* Thursday-14 met before Tuesday-10, both of score 29.5, and a third bucket
StableTieBreakWitness ==
    /\ Called("historical") /\ Returned
    /\ Len(Result.allTimeSlots) = 3
    /\ \E i \in 1..2 :
          /\ Result.allTimeSlots[i].dayOfWeek = "Thursday"
          /\ Result.allTimeSlots[i + 1].dayOfWeek = "Tuesday"
          /\ Result.allTimeSlots[i].score = Result.allTimeSlots[i + 1].score
          /\ 10 * Result.allTimeSlots[i].score = Num(295)

(***************************************************************************)
(* C19: the heatmap of a collection has exactly one entry for each (day,   *)
(* hour) pair of the 7 x 24 grid that at least one record was sent at and  *)
(* none for any other pair; the entries are ordered by day, Monday through *)
(* Sunday, and within a day by ascending hour; an entry's count is the     *)
(* number of the records of its pair and its value their mean openRate.    *)
(***************************************************************************)
WeekFromMonday ==
    <<"Monday", "Tuesday", "Wednesday", "Thursday", "Friday", "Saturday", "Sunday">>

DayRank(day) == CHOOSE d \in 1..7 : WeekFromMonday[d] = day

HeatmapGrid ==
    charts.kind = "heatmap"
    => LET entries == charts.value
           records == charts.records
       IN  /\ \A d \in 1..7, hour \in 0..23 :
                  Cardinality({i \in 1..Len(entries) :
                                  /\ entries[i].day = WeekFromMonday[d]
                                  /\ entries[i].hour = hour})
                      = IF RowsAt(records, WeekFromMonday[d], hour) # {} THEN 1 ELSE 0
           /\ \A i \in 1..Len(entries) :
                  /\ \E d \in 1..7 : entries[i].day = WeekFromMonday[d]
                  /\ entries[i].hour \in 0..23
                  /\ LET at == RowsAt(records, entries[i].day, entries[i].hour)
                     IN  /\ entries[i].count = Cardinality(at)
                         /\ entries[i].value * entries[i].count
                                = Num(TotalAt(records, at, "openRate"))
           /\ \A i, j \in 1..Len(entries) :
                  i < j => \/ DayRank(entries[i].day) < DayRank(entries[j].day)
                           \/ /\ entries[i].day = entries[j].day
                              /\ entries[i].hour < entries[j].hour

\* Sunday 09:00 and two on Tuesday 10:00, uploaded in that order: Tuesday-10
\* is first and holds two records of mean 50, Sunday-9, of the lower hour, is
\* last
HeatmapGridWitness ==
    /\ charts.kind = "heatmap"
    /\ Len(charts.records) = 3
    /\ charts.records[1].dayOfWeek = "Sunday"
    /\ Len(charts.value) = 2
    /\ charts.value[1].day = "Tuesday" /\ charts.value[1].hour = 10
    /\ charts.value[1].count = 2 /\ charts.value[1].value = Num(50)
    /\ charts.value[2].day = "Sunday" /\ charts.value[2].hour = 9

(***************************************************************************)
(* C20: the counts of the distribution by hour sum to the number of        *)
(* records; the distribution has one entry for each distinct hourOfDay of  *)
(* the records and no other; its entries are in ascending order of hour.   *)
(***************************************************************************)
RECURSIVE CountTotal(_)
CountTotal(entries) ==
    IF entries = <<>> THEN 0 ELSE entries[1].count + CountTotal(Tail(entries))

HourlyCounts ==
    charts.kind = "distribution"
    => LET entries == charts.value
           records == charts.records
       IN  /\ CountTotal(entries) = Len(records)
           /\ {entries[i].hour : i \in 1..Len(entries)}
                  = {records[i].hourOfDay : i \in 1..Len(records)}
           /\ \A i, j \in 1..Len(entries) : i < j => entries[i].hour < entries[j].hour

\* Friday 16:00, Tuesday 10:00 and Monday 16:00, uploaded in that order: hour 10
\* comes first with one record, hour 16 second with two
HourlyCountsWitness ==
    /\ charts.kind = "distribution"
    /\ Len(charts.records) = 3
    /\ charts.records[1].hourOfDay = 16
    /\ charts.records[2].hourOfDay = 10
    /\ Len(charts.value) = 2
    /\ charts.value[1].hour = 10 /\ charts.value[1].count = 1
    /\ charts.value[2].hour = 16 /\ charts.value[2].count = 2

(***************************************************************************)
(* C30: in combined mode with non-empty records, the (dayOfWeek,           *)
(* hourOfDay) keys of allTimeSlots are exactly the keys of the historical  *)
(* buckets together with the 5 best-practice keys, no key appears twice,   *)
(* and the sampleSize values of allTimeSlots sum to the number of records. *)
(***************************************************************************)
KeyOf(slot) == <<slot.dayOfWeek, slot.hourOfDay>>

CombinedKeys ==
    (Called("combined") /\ Len(call.records) > 0)
    => /\ Returned
       /\ LET slots == Result.allTimeSlots
              records == call.records
          IN  /\ {KeyOf(slots[i]) : i \in 1..Len(slots)}
                     = {KeyOf(records[i]) : i \in 1..Len(records)}
                       \cup {KeyOf(BEST_PRACTICES[i]) : i \in 1..Len(BEST_PRACTICES)}
              /\ \A i, j \in 1..Len(slots) : KeyOf(slots[i]) = KeyOf(slots[j]) => i = j
              /\ SampleTotal(slots) = Len(records)

\* two records on Tuesday 10:00, a best-practice key, and one on Friday 16:00,
\* which is none: six slots, the samples of two of them summing to 3
CombinedKeysWitness ==
    /\ Called("combined") /\ Returned
    /\ Len(call.records) = 3
    /\ Cardinality(RowsAt(call.records, "Tuesday", 10)) = 2
    /\ Cardinality(RowsAt(call.records, "Friday", 16)) = 1
    /\ Len(Result.allTimeSlots) = 6
    /\ Cardinality(SlotsAt(Result.allTimeSlots, "Tuesday", 10)) = 1

(***************************************************************************)
(* C21: every record processEmailData outputs has one of the 7 weekday     *)
(* names as dayOfWeek and an integer of 0..23 as hourOfDay; a raw row      *)
(* without send date, with a date or time that does not parse, or without  *)
(* open rate produces no record, every other row produces one, in the      *)
(* order of the rows; the record of a row without send time is sent at     *)
(* 12:00.                                                                  *)
(***************************************************************************)
Missing(value) == value = Undefined \/ value = Str(<<>>)

DateTexts ==
    {<<"2024-01-", DigitChars[(day \div 10) + 1], DigitChars[(day % 10) + 1]>> :
        day \in 1..31}

TimeTexts ==
    {<<DigitChars[(hour \div 10) + 1], DigitChars[(hour % 10) + 1], ":",
       DigitChars[(minute \div 10) + 1], DigitChars[(minute % 10) + 1]>> :
        hour \in 0..23, minute \in 0..59}

FailsToParse(row) ==
    \/ row.sendDate.kind = "string" /\ row.sendDate.text \notin DateTexts
    \/ row.sendTime.kind = "string" /\ row.sendTime.text # <<>>
       /\ row.sendTime.text \notin TimeTexts

Dropped(row) == Missing(row.sendDate) \/ Missing(row.openRate) \/ FailsToParse(row)

KeptRows == {i \in 1..Len(rawData) : ~Dropped(rawData[i])}

\* the place in the output of the record of the kept row i
OutputPlace(i) == Cardinality({j \in KeptRows : j <= i})

NormalizedRecords ==
    norm.kind = "processed"
    => /\ \A k \in 1..Len(norm.value) :
              /\ norm.value[k].dayOfWeek \in
                     {"Monday", "Tuesday", "Wednesday", "Thursday", "Friday",
                      "Saturday", "Sunday"}
              /\ norm.value[k].hourOfDay \in 0..23
       /\ Len(norm.value) = Cardinality(KeptRows)
       /\ \A i \in KeptRows :
              LET record == norm.value[OutputPlace(i)]
                  day == 10 * DigitValue(rawData[i].sendDate.text[2])
                         + DigitValue(rawData[i].sendDate.text[3])
              IN  /\ record.sendDate \div 24 = day - 1
                  /\ Missing(rawData[i].sendTime)
                     => /\ record.hourOfDay = 12
                        /\ record.sendTime = <<"1", "2", ":", "0", "0">>

\* a row without send time on Sunday 2024-01-07 between a row without send
\* date and a row whose time is 25:00: one record, sent on Sunday at 12:00
NormalizedRecordsWitness ==
    /\ norm.kind = "processed"
    /\ Len(rawData) = 3
    /\ Missing(rawData[1].sendDate)
    /\ ~Dropped(rawData[2]) /\ Missing(rawData[2].sendTime)
    /\ ~Missing(rawData[3].sendDate) /\ FailsToParse(rawData[3])
    /\ Len(norm.value) = 1
    /\ norm.value[1].dayOfWeek = "Sunday"
    /\ norm.value[1].hourOfDay = 12

(***************************************************************************)
(* C22: every record processEmailData outputs has its openRate, clickRate, *)
(* unsubscribeRate and bounceRate within 0..100.                           *)
(***************************************************************************)
RatesInRange ==
    norm.kind = "processed"
    => \A k \in 1..Len(norm.value) :
           /\ norm.value[k].openRate \in 0..100
           /\ norm.value[k].clickRate \in 0..100
           /\ norm.value[k].unsubscribeRate \in 0..100
           /\ norm.value[k].bounceRate \in 0..100

(***************************************************************************)
(* C23: filterData(records, filters) returns, in their original order,     *)
(* exactly the records that equal the filter value on every field whose    *)
(* filter is a name; a field whose filter is "All" or left out restricts   *)
(* nothing, so that filters of "All" only return every record; filtering   *)
(* the outcome once more with the same filters returns the outcome.        *)
(***************************************************************************)
FilterFields == {"businessUnit", "organizationType", "campaignType"}

Matches(record, filters) ==
    \A field \in FilterFields :
        filters[field] \in {"All", Absent} \/ record[field] = filters[field]

Matching == {i \in 1..Len(norm.records) : Matches(norm.records[i], norm.filters)}

FilterExact ==
    /\ norm.kind = "filtered"
       => /\ Len(norm.value) = Cardinality(Matching)
          /\ \A i \in Matching :
                 norm.value[Cardinality({j \in Matching : j <= i})] = norm.records[i]
          /\ (\A field \in FilterFields : norm.filters[field] = "All")
             => norm.value = norm.records
    /\ norm.kind = "refiltered" => norm.value = norm.records

\* three records, the second of the business unit Tax between two of Legal,
\* filtered by Legal and Newsletter and then a second time: the two of Legal
\* in their order, both times
FilterExactWitness ==
    /\ norm.kind = "refiltered"
    /\ norm.filters.businessUnit = "Legal"
    /\ norm.filters.campaignType = "Newsletter"
    /\ Len(processEmailData(rawData)) = 3
    /\ processEmailData(rawData)[2].businessUnit = "Tax"
    /\ Len(norm.value) = 2
    /\ norm.value[1].sendDate < norm.value[2].sendDate

(***************************************************************************)
(* C24: whenever handleAnalyze or handleAnalysisTypeChange attempts an     *)
(* analysis of data at hand that fails or has nothing to analyse (the      *)
(* filtered data is empty, which is also the one case where                *)
(* performAnalysis throws), the store holds afterwards a non-null error    *)
(* and currentResults = null.                                              *)
(***************************************************************************)
NothingToAnalyse ==
    /\ Len(store.currentData) > 0
    /\ Len(filterData(store.currentData, store.filters)) = 0

FailedAnalysisShown ==
    [][((HandleAnalyze \/ HandleAnalysisTypeChange) /\ NothingToAnalyse)
       => (store'.error # Null /\ store'.currentResults = Null)]_vars

(***************************************************************************)
(* C26: after any sequence of uploads, successful or failed, and of        *)
(* analyses, every entry of analysisHistory whose results were computed    *)
(* from records carries the fileName of the file these records came from.  *)
(***************************************************************************)
\* the records the file of that name yields, none if it yields none
DataOf(fileName) ==
    LET file == CHOOSE f \in Files : f.name = fileName
    IN  IF file.parse.kind = "ok" /\ validateEmailData(file.parse).isValid
        THEN processEmailData(file.parse.rows)
        ELSE <<>>

SentWithin(date, records) == \E i \in 1..Len(records) : records[i].sendDate = date

ComputedFrom(results, records) ==
    results.metadata.totalRecords > 0
    => SentWithin(results.metadata.dateRange.start, records)

HistoryNamesItsFile ==
    \A i \in 1..Len(store.analysisHistory) :
        ComputedFrom(store.analysisHistory[i].results,
                     DataOf(store.analysisHistory[i].fileName))

(***************************************************************************)
(* C27: when two handleFileUpload invocations overlap, isLoading is never  *)
(* false while an upload is in progress, and once both have completed      *)
(* with a file that yields records as currentFile, currentData and         *)
(* currentResults are those of currentFile.                                *)
(***************************************************************************)
OverlappingUploads ==
    /\ Parsing # {} => store.isLoading
    /\ (Parsing = {} /\ store.currentFile # Null
        /\ Len(DataOf(store.currentFile.name)) > 0)
       => /\ store.currentData = DataOf(store.currentFile.name)
          /\ store.currentResults # Null
             => ComputedFrom(store.currentResults, DataOf(store.currentFile.name))

(***************************************************************************)
(* C28: with settings.maxHistoryItems fixed, analysisHistory never holds   *)
(* more than maxHistoryItems entries and is ordered newest first: every    *)
(* addToHistory puts the new analysis at index 0 and drops nothing but the *)
(* oldest entries beyond the bound.                                        *)
(***************************************************************************)
NewestFirst(history) ==
    \A i, j \in 1..Len(history) : i < j => history[i].id > history[j].id

HistoryBounded ==
    /\ [](/\ Len(store.analysisHistory) <= store.settings.maxHistoryItems
          /\ NewestFirst(store.analysisHistory))
    /\ [][(store'.idsIssued # store.idsIssued)
          => /\ store'.settings = store.settings
             /\ store'.analysisHistory[1].id = store'.idsIssued
             /\ store'.analysisHistory
                    = Slice(<<store'.analysisHistory[1]>> \o store.analysisHistory,
                            store.settings.maxHistoryItems)]_vars

\* the fourth analysis stored under a bound of 2: it is first, the third is
\* second, the first two are gone
HistoryBoundedWitness ==
    /\ store.settings.maxHistoryItems = 2
    /\ store.idsIssued = 4
    /\ Len(store.analysisHistory) = 2
    /\ store.analysisHistory[1].id = 4
    /\ store.analysisHistory[2].id = 3

(***************************************************************************)
(* C29: every handleFileUpload invocation sets isLoading to true when it   *)
(* starts; once parseFile settles it finishes, and it sets isLoading to    *)
(* false as it does; when it finishes after a validation failure, with no  *)
(* valid row, or after a thrown error, error is non-null.                  *)
(***************************************************************************)
FailingFiles == {file \in Files : Len(DataOf(file.name)) = 0}

Starts(u) == uploads[u].pc = "idle" /\ uploads'[u].pc = "parsing"

Finishes(u) == uploads[u].pc = "parsing" /\ uploads'[u].pc = "idle"

UploadsFinish ==
    /\ [][\A u \in Invocations : Starts(u) => store'.isLoading]_vars
    /\ [][\A u \in Invocations :
              Finishes(u)
              => /\ ~store'.isLoading
                 /\ uploads[u].file \in FailingFiles => store'.error # Null]_vars
    /\ \A u \in Invocations : (uploads[u].pc = "parsing") ~> (uploads[u].pc = "idle")

\* the upload of undated.csv has finished while that of notes.txt, started
\* after it, is still in progress
UploadsFinishWitness ==
    /\ uploads[1].pc = "idle"
    /\ uploads[2].pc = "parsing"
    /\ uploads[2].file.name = "notes.txt"
    /\ store.error = Message(<<"No valid data found in the file after processing.">>)
    /\ ~store.isLoading

(***************************************************************************)
(* C25  Concurrent analyze calls, each given its own records collection,   *)
(* do not interfere: under every interleaving of their steps a call that   *)
(* has returned holds the ranked list and the top three that               *)
(* performAnalysis gives on its records alone (or has thrown as it throws  *)
(* alone), and the best-practices table the calls share is never written.  *)
(***************************************************************************)
Alone(run) ==
    performAnalysis(run.records, run.analysisType, run.filters, AppClock)

SameAsAlone(run) ==
    IF Alone(run).kind = "ok"
    THEN /\ run.outcome.kind = "ok"
         /\ Ranking(run.outcome.value) = Ranking(Alone(run).value)
    ELSE run.outcome = Alone(run)

ConcurrentCallsIndependent ==
    /\ bestPracticesTable = BEST_PRACTICES
    /\ \A r \in Invocations : runs[r].pc = "done" => SameAsAlone(runs[r])

\* two combined calls on different collections have both returned, each
\* having taken steps while the other was in progress
ConcurrentCallsIndependentWitness ==
    /\ \A r \in Invocations :
           /\ runs[r].pc = "done"
           /\ runs[r].analysisType = "combined"
           /\ Len(runs[r].records) > 0
           /\ runs[r].overlapped
           /\ runs[r].outcome.kind = "ok"
    /\ runs[1].records # runs[2].records
    /\ Ranking(runs[1].outcome.value) # Ranking(runs[2].outcome.value)

====
